---- MODULE Spec2Model ----
(***************************************************************************)
(* Verification model of the voice-typing state machine, the legacy       *)
(* inactivity policy, the audio pipeline, the audio input queue and the    *)
(* output dispatcher of vovka/ubuntu_voice_to_text.                        *)
(*                                                                         *)
(*  - BasicStateManager (interfaces/state_manager/basic_state_manager.py)  *)
(*    is modelled statement by statement, one action per statement of      *)
(*    set_state, so that calls of several threads and re-entrant calls     *)
(*    made by listeners interleave as the interpreter lets them.           *)
(*  - AudioProcessor, HotkeyManager and LegacyStateManagerAdapter are      *)
(*    modelled as wired in main.py, and without a state manager as in      *)
(*    voice_typing.py.                                                     *)
(*                                                                         *)
(*  - The audio pipeline (pipeline/stages.py, pipeline/coordinator.py) is  *)
(*    modelled with one action per stage call of the coordinator's         *)
(*    coroutines and one per turn of a stage's loop task; the event loop   *)
(*    runs loop tasks and posted puts only while the calling coroutine is  *)
(*    suspended or has returned, the audio thread delivers at any time.    *)
(*    Chunks are numbered in the order the audio source delivers them.     *)
(*                                                                         *)
(*  - reset_state and get_state_metadata of BasicStateManager are one      *)
(*    action each; the dict get_state_metadata hands out is modelled with  *)
(*    its identity (a copy or the manager's own dict).                     *)
(*  - OutputDispatcher (interfaces/output_action/output_dispatcher.py) is  *)
(*    modelled with one action per public method; a dispatch_text call     *)
(*    records every deliver_text call and every listener call it makes.    *)
(*  - SoundDeviceAudioInput (pipeline/audio_input.py): the device callback *)
(*    is modelled one queue operation at a time, interleaved with the      *)
(*    processing thread.                                                   *)
(*                                                                         *)
(*  - RecognitionStage._recognition_loop (pipeline/stages.py) is modelled  *)
(*    one turn at a time with a source whose feed_audio_chunk, get_result  *)
(*    and the result callback may raise; an exception that escapes the     *)
(*    loop ends the loop task and is raised again by stop().               *)
(*  - HotkeyManager.on_press and on_release (voice_typing/hotkey_manager   *)
(*    .py) are one action each, over the keys of the combination and one   *)
(*    other key; the tray's _current_state is read off the listener calls. *)
(*                                                                         *)
(* StateTransition.timestamp is not modelled: nothing below reads it.      *)
(* The chunks the capture stage ignores between start_capture() and the    *)
(* assignment of _running are not modelled.                                *)
(***************************************************************************)
EXTENDS Integers, Sequences, FiniteSets, TLC

(* ------------------------------------------------------------------ *)
(* Bounds                                                              *)
(* ------------------------------------------------------------------ *)

\* accepted transitions recorded by a BasicStateManager used from one thread
MaxHistory == 3
\* accepted transitions recorded by a BasicStateManager shared by two threads
MaxSharedHistory == 3
\* nesting depth of set_state calls made from inside listeners
MaxDepth == 2
\* last clock value of the legacy application run
MaxTime == 8
\* accepted transitions recorded by the LegacyStateManagerAdapter
MaxAdapterHistory == 2
\* capacity of each inter-stage queue (config 'queue_size')
QueueSize == 2
\* chunks the buffering stage collects before it flushes (config 'buffer_size')
BufferSize == 2
\* chunks the audio source delivers in one run
MaxChunks == 4
\* loop tasks one stage creates in a run
MaxWorkers == 2
\* registrations the OutputDispatcher's target list holds
MaxTargets == 3
\* registrations the OutputDispatcher's listener list holds
MaxOutputListeners == 2
\* capacity of SoundDeviceAudioInput's queue (_max_queue_size)
MaxQueueSize == 2
\* chunks the sound device delivers in one run
MaxDeviceChunks == 5
MaxKeyHistory == 3

(* ------------------------------------------------------------------ *)
(* VoiceTypingState and the transition table                          *)
(* ------------------------------------------------------------------ *)

None == "None"

IDLE == "idle"
LISTENING == "listening"
FINISH_LISTENING == "finish_listening"
PROCESSING == "processing"
ERROR == "error"

VoiceTypingState == {IDLE, LISTENING, FINISH_LISTENING, PROCESSING, ERROR}

valid_transitions ==
    [s \in VoiceTypingState |->
        CASE s = IDLE -> {LISTENING, ERROR}
          [] s = LISTENING -> {FINISH_LISTENING, IDLE, ERROR}
          [] s = FINISH_LISTENING -> {PROCESSING, IDLE, ERROR}
          [] s = PROCESSING -> {IDLE, ERROR}
          [] s = ERROR -> {IDLE}]

\* faulty variant: a request for the state the manager is already in is let through
can_transition_to_self(cur, new_state) ==
    new_state = cur \/ new_state \in valid_transitions[cur]

can_transition_to(cur, new_state) == new_state \in valid_transitions[cur]

(* ------------------------------------------------------------------ *)
(* Metadata: a dict is a set of <<key, value>> pairs with unique keys  *)
(* ------------------------------------------------------------------ *)

EmptyDict == {}

\* an Optional[...] value is <<>> (None) or <<v>>
Nothing == <<>>
Some(v) == <<v>>

\* the metadata arguments callers pass: None, {} and a one-key dict
MetadataArgs == {Nothing, Some(EmptyDict), Some({<<"test", "data">>})}

Keys(d) == {p[1] : p \in d}

\* faulty variant: a key that is present keeps its value
DictUpdateKeepsOld(d, other) == d \cup {p \in other : p[1] \notin Keys(d)}

\* dict.update(other)
DictUpdate(d, other) == {p \in d : p[1] \notin Keys(other)} \cup other

\* truth value of an Optional[dict]
DictTruthy(m) == m # Nothing /\ m[1] # EmptyDict

\* faulty variant: the record carries the state after the change as from_state
StateTransitionFromNew(from_state, to_state, metadata) ==
    [from_state |-> to_state, to_state |-> to_state,
     metadata |-> IF DictTruthy(metadata) THEN metadata[1] ELSE EmptyDict]

\* StateTransition.__init__: metadata or {}
StateTransition(from_state, to_state, metadata) ==
    [from_state |-> from_state, to_state |-> to_state,
     metadata |-> IF DictTruthy(metadata) THEN metadata[1] ELSE EmptyDict]

(* ------------------------------------------------------------------ *)
(* Listeners and threads                                               *)
(* ------------------------------------------------------------------ *)

\* what a registered callable does when it is invoked
ListenerKind ==
    [l \in {"recorder", "raiser", "reactor"} |->
        CASE l = "recorder" -> "returns"
          [] l = "raiser" -> "raises"
          [] l = "reactor" -> "calls_set_state"]

Listeners == DOMAIN ListenerKind

\* listeners that only observe (they return or raise, they call nothing)
Observers == {l \in Listeners : ListenerKind[l] # "calls_set_state"}

HotkeyThread == "hotkey"
AudioThread == "audio"
Threads == {HotkeyThread, AudioThread}

VARIABLES
    current_state,   \* BasicStateManager._current_state
    listeners,       \* BasicStateManager._listeners
    history,         \* BasicStateManager._history
    sm_metadata,     \* BasicStateManager._metadata
    stack,           \* per thread: the frames of its set_state calls in progress
    result,          \* per thread: what its last completed outermost call did
    calls            \* per listener: the invocations it received, in order,
                     \* since the manager was last at rest

smVars == <<current_state, listeners, history, sm_metadata, stack, result, calls>>

(* ------------------------------------------------------------------ *)
(* Legacy application state (main.py, voice_typing.py)                 *)
(* ------------------------------------------------------------------ *)

VARIABLES
    wiring,                \* "state_manager" (main.py), "direct" (voice_typing.py)
                           \* or "pipeline" (main_pipeline.py --pipeline)
    gs_state,              \* GlobalState.state
    last_text_at,          \* AudioProcessor.last_text_at
    listening_started_at,  \* AudioProcessor.listening_started_at
    now,                   \* the value time.time() returns
    adapter_history,       \* LegacyStateManagerAdapter._history
    adapter_calls,         \* per adapter listener: the transitions it received
    hk,                    \* HotkeyManager.set_state call in progress, or None
    op_log                 \* the HotkeyManager.set_state or process_buffer call
                           \* that has just returned at the current time

apVars == <<wiring, gs_state, last_text_at, listening_started_at, now,
            adapter_history, adapter_calls, hk, op_log>>

(* ------------------------------------------------------------------ *)
(* Audio pipeline state (pipeline/coordinator.py, pipeline/stages.py)  *)
(* ------------------------------------------------------------------ *)

VARIABLES
    audio_available,  \* what AudioInputSource.is_available() returns
    rec_available,    \* what VoiceRecognitionSource.is_available() returns
    co_running,       \* AudioPipelineCoordinator._running
    stage_running,    \* per stage: its _running flag
    capturing,        \* the audio source has a stream and calls audio_callback
    task,             \* per worker stage: its _task (a worker id), 0 for None
    worker,           \* per worker stage and worker id: where the loop task is
    put_pending,      \* per buffering worker: the buffer its blocked put holds
    buffer,           \* AudioBufferingStage._buffer
    q1,               \* _capture_to_buffer_queue
    q2,               \* _buffer_to_recognition_queue
    scheduled,        \* put coroutines posted to the event loop, not yet run
    putters,          \* put coroutines waiting on the full capture queue
    woken,            \* waiting put coroutines woken by a get, not yet resumed
    next_chunk,       \* the number of the next chunk the audio source delivers
    dequeued,         \* chunks the buffering loop took from its input queue
    emitted,          \* buffers the buffering loop flushed, and why
    processed,        \* chunks passed to process_audio_chunk, in order
    co_todo,          \* the caller's coroutine: the stage calls still to make
    started,          \* start_pipeline's stages_started so far
    co_ret,           \* the coordinator or stage call that returned last
    cleaned,          \* stages whose cleanup() has completed in this cleanup
    quiet             \* the user has stopped pressing the hotkey for good

plVars == <<audio_available, rec_available, co_running, stage_running,
            capturing, task, worker, put_pending, buffer, q1, q2, scheduled,
            putters, woken, next_chunk, dequeued, emitted, processed, co_todo,
            started, co_ret, cleaned, quiet>>

(* ------------------------------------------------------------------ *)
(* BasicStateManager: reset_state and get_state_metadata               *)
(* ------------------------------------------------------------------ *)

VARIABLES
    sm_op             \* the reset_state or get_state_metadata call that has
                      \* returned with no other call of the manager made
                      \* since, and the mapping its caller holds

saVars == <<sm_op>>

(* ------------------------------------------------------------------ *)
(* OutputDispatcher state (interfaces/output_action/output_dispatcher) *)
(* ------------------------------------------------------------------ *)

VARIABLES
    od_initialized,   \* OutputDispatcher._initialized
    od_targets,       \* OutputDispatcher._targets
    od_listeners,     \* OutputDispatcher._event_listeners
    od_available,     \* per target: what its is_available() returns
    od_log            \* the dispatcher call that has just returned

odVars == <<od_initialized, od_targets, od_listeners, od_available, od_log>>

(* ------------------------------------------------------------------ *)
(* SoundDeviceAudioInput state (pipeline/audio_input.py)               *)
(* ------------------------------------------------------------------ *)

VARIABLES
    ai_stream,        \* SoundDeviceAudioInput._stream is set and started
    ai_queue,         \* SoundDeviceAudioInput._audio_queue
    ai_cb,            \* where the device's audio_callback call in progress is
    ai_next,          \* the number of the next chunk the device delivers
    ai_out,           \* the chunks passed on to self._callback, in order
    ai_log            \* the audio_callback call that has just returned

aiVars == <<ai_stream, ai_queue, ai_cb, ai_next, ai_out, ai_log>>

(* ------------------------------------------------------------------ *)
(* RecognitionStage: the recognition source and the output callback    *)
(* (pipeline/stages.py)                                                *)
(* ------------------------------------------------------------------ *)

VARIABLES
    rs_turn,          \* the turn of _recognition_loop that has just ended
    rs_failed         \* the recognition loop tasks that ended with an exception

rsVars == <<rs_turn, rs_failed>>

(* ------------------------------------------------------------------ *)
(* HotkeyManager key tracking (hotkey_manager.py)                      *)
(* ------------------------------------------------------------------ *)

VARIABLES
    current_keys,     \* GlobalState.current_keys
    combo_pressed,    \* HotkeyManager._combo_pressed
    key_log           \* the on_release call that has just returned, and what
                      \* the user has done with the combination so far

hkVars == <<current_keys, combo_pressed, key_log>>

vars == <<smVars, apVars, plVars, saVars, odVars, aiVars, rsVars, hkVars>>

(* ------------------------------------------------------------------ *)
(* BasicStateManager                                                   *)
(* ------------------------------------------------------------------ *)

NoCalls == [l \in Listeners |-> <<>>]

\* BasicStateManager.__init__
InitSM ==
    /\ current_state = IDLE
    /\ listeners = {}
    /\ history = <<>>
    /\ sm_metadata = EmptyDict
    /\ stack = [t \in Threads |-> <<>>]
    /\ result = [t \in Threads |-> Nothing]
    /\ calls = NoCalls
    /\ sm_op = Nothing

Top(t) == stack[t][Len(stack[t])]

SetTop(t, f) == [stack EXCEPT ![t][Len(stack[t])] = f]

Pop(t) == SubSeq(stack[t], 1, Len(stack[t]) - 1)

Busy == \E t \in Threads : stack[t] # <<>>

\* calls in progress that have not yet appended their transition
Pending ==
    Cardinality({<<t, i>> \in Threads \X (1..MaxDepth) :
                    /\ i <= Len(stack[t])
                    /\ stack[t][i].pc # "notify"})

\* what the manager holds when a call is made; kept with the call's frame so
\* that the call's effect can be stated once it has returned
Snapshot ==
    [state |-> current_state, history |-> history, metadata |-> sm_metadata,
     listeners |-> listeners]

\* the frame's transition before "transition = StateTransition(...)" has run
NoTransition == [from_state |-> None, to_state |-> None, metadata |-> EmptyDict]

NewFrame(new_state, metadata) ==
    [new_state |-> new_state, metadata |-> metadata, pc |-> "check",
     old_state |-> None, transition |-> NoTransition, index |-> 0, todo |-> {},
     nested |-> FALSE, pre |-> Snapshot]

\* what a completed outermost call reports
ResultOf(f, ret) ==
    [new_state |-> f.new_state, metadata |-> f.metadata, ret |-> ret,
     nested |-> f.nested, pre |-> f.pre]

\* the frame of the caller after the call it made has returned
Resume(t, ret) ==
    IF Len(stack[t]) = 1
    THEN /\ stack' = [stack EXCEPT ![t] = <<>>]
         /\ result' = [result EXCEPT ![t] = Some(ResultOf(Top(t), ret))]
    ELSE /\ stack' = [stack EXCEPT ![t] = Pop(t)]
         /\ UNCHANGED result

\* register_state_listener: set.add
RegisterListener(l) ==
    /\ ~Busy
    /\ listeners' = listeners \cup {l}
    /\ result' = [t \in Threads |-> Nothing]
    /\ UNCHANGED <<current_state, history, sm_metadata, stack, calls>>
    /\ UNCHANGED <<apVars, plVars, odVars, aiVars,
                   rsVars, hkVars>>
    /\ sm_op' = Nothing

\* unregister_state_listener: set.discard
UnregisterListener(l) ==
    /\ ~Busy
    /\ listeners' = listeners \ {l}
    /\ result' = [t \in Threads |-> Nothing]
    /\ UNCHANGED <<current_state, history, sm_metadata, stack, calls>>
    /\ UNCHANGED <<apVars, plVars, odVars, aiVars,
                   rsVars, hkVars>>
    /\ sm_op' = Nothing

\* a thread calls set_state(new_state, metadata); bound caps the history
SetStateCall(t, new_state, metadata, bound) ==
    /\ stack[t] = <<>>
    /\ Len(history) + Pending < bound
    /\ stack' = [stack EXCEPT ![t] = <<NewFrame(new_state, metadata)>>]
    /\ result' = [result EXCEPT ![t] = Nothing]
    /\ calls' = IF Busy THEN calls ELSE NoCalls
    /\ sm_op' = Nothing
    /\ UNCHANGED <<current_state, listeners, history, sm_metadata>>
    /\ UNCHANGED <<apVars, plVars, odVars, aiVars,
                   rsVars, hkVars>>

\* if not self.can_transition_to(new_state): return False
CheckTransition(t) ==
    /\ stack[t] # <<>>
    /\ Top(t).pc = "check"
    /\ IF can_transition_to(current_state, Top(t).new_state)
       THEN /\ stack' = SetTop(t, [Top(t) EXCEPT !.pc = "read_old"])
            /\ UNCHANGED result
       ELSE Resume(t, FALSE)
    /\ UNCHANGED <<current_state, listeners, history, sm_metadata, calls>>
    /\ UNCHANGED <<apVars, plVars, saVars, odVars, aiVars,
                   rsVars, hkVars>>

\* old_state = self._current_state
ReadOldState(t) ==
    /\ stack[t] # <<>>
    /\ Top(t).pc = "read_old"
    /\ stack' = SetTop(t, [Top(t) EXCEPT !.pc = "write",
                                          !.old_state = current_state])
    /\ UNCHANGED <<current_state, listeners, history, sm_metadata, result, calls>>
    /\ UNCHANGED <<apVars, plVars, saVars, odVars, aiVars,
                   rsVars, hkVars>>

\* self._current_state = new_state
WriteState(t) ==
    /\ stack[t] # <<>>
    /\ Top(t).pc = "write"
    /\ current_state' = Top(t).new_state
    /\ stack' = SetTop(t, [Top(t) EXCEPT !.pc = "metadata"])
    /\ UNCHANGED <<listeners, history, sm_metadata, result, calls>>
    /\ UNCHANGED <<apVars, plVars, saVars, odVars, aiVars,
                   rsVars, hkVars>>

\* if metadata: self._metadata.update(metadata)
UpdateMetadata(t) ==
    /\ stack[t] # <<>>
    /\ Top(t).pc = "metadata"
    /\ sm_metadata' = IF DictTruthy(Top(t).metadata)
                      THEN DictUpdate(sm_metadata, Top(t).metadata[1])
                      ELSE sm_metadata
    /\ stack' = SetTop(t, [Top(t) EXCEPT !.pc = "append"])
    /\ UNCHANGED <<current_state, listeners, history, result, calls>>
    /\ UNCHANGED <<apVars, plVars, saVars, odVars, aiVars,
                   rsVars, hkVars>>

\* transition = StateTransition(old_state, new_state, metadata)
\* self._history.append(transition); the loop over self._listeners begins
AppendHistory(t) ==
    /\ stack[t] # <<>>
    /\ Top(t).pc = "append"
    /\ LET tr == StateTransition(Top(t).old_state, Top(t).new_state,
                                 Top(t).metadata)
       IN /\ history' = Append(history, tr)
          /\ stack' = SetTop(t, [Top(t) EXCEPT !.pc = "notify",
                                                !.transition = tr,
                                                !.index = Len(history) + 1,
                                                !.todo = listeners])
    /\ UNCHANGED <<current_state, listeners, sm_metadata, result, calls>>
    /\ UNCHANGED <<apVars, plVars, saVars, odVars, aiVars,
                   rsVars, hkVars>>

\* faulty variant: the first listener that raises ends the loop
AfterListenerRaisedAbort(todo) == {}

\* except Exception: print(...) - the loop goes on with the listeners left
AfterListenerRaised(todo) == todo

\* the listeners still to call once listener l has been called
Remaining(f, l) ==
    IF ListenerKind[l] = "raises"
    THEN AfterListenerRaised(f.todo \ {l})
    ELSE f.todo \ {l}

\* what a listener is shown: the transition (index is its place in the
\* history), and the state get_current_state() returns to it
Invocation(f) ==
    [transition |-> f.transition, index |-> f.index, seen |-> current_state]

\* one turn of "for listener in self._listeners: listener(transition)" for a
\* listener that returns or raises
NotifyListener(t, l) ==
    /\ stack[t] # <<>>
    /\ Top(t).pc = "notify"
    /\ l \in Top(t).todo
    /\ calls' = [calls EXCEPT ![l] = Append(@, Invocation(Top(t)))]
    /\ stack' = SetTop(t, [Top(t) EXCEPT !.todo = Remaining(Top(t), l)])
    /\ UNCHANGED <<current_state, listeners, history, sm_metadata, result>>
    /\ UNCHANGED <<apVars, plVars, saVars, odVars, aiVars,
                   rsVars, hkVars>>

\* one turn of the loop for a listener that calls set_state itself: the call
\* runs on the same thread, inside the loop of the call that notified it
NotifyListenerReenter(t, l, new_state, metadata) ==
    /\ stack[t] # <<>>
    /\ Top(t).pc = "notify"
    /\ l \in Top(t).todo
    /\ ListenerKind[l] = "calls_set_state"
    /\ Len(stack[t]) < MaxDepth
    /\ Len(history) + Pending < MaxHistory
    /\ calls' = [calls EXCEPT ![l] = Append(@, Invocation(Top(t)))]
    /\ stack' = [stack EXCEPT ![t] =
            Append(SetTop(t, [Top(t) EXCEPT !.todo = @ \ {l},
                                            !.nested = TRUE])[t],
                   NewFrame(new_state, metadata))]
    /\ UNCHANGED <<current_state, listeners, history, sm_metadata, result>>
    /\ UNCHANGED <<apVars, plVars, saVars, odVars, aiVars,
                   rsVars, hkVars>>

\* return True
ReturnTrue(t) ==
    /\ stack[t] # <<>>
    /\ Top(t).pc = "notify"
    /\ Top(t).todo = {}
    /\ Resume(t, TRUE)
    /\ UNCHANGED <<current_state, listeners, history, sm_metadata, calls>>
    /\ UNCHANGED <<apVars, plVars, saVars, odVars, aiVars,
                   rsVars, hkVars>>

(* ---- reset_state and get_state_metadata ---- *)

\* what a reset_state or get_state_metadata call reports: what the manager
\* held when it was made, the invocations the listeners had received by
\* then, and the mapping handed to the caller (shared when it is the
\* manager's own dict)
AdminOp(op, value, shared) ==
    [op |-> op, pre |-> Snapshot, pre_calls |-> calls,
     value |-> value, shared |-> shared, mutated |-> FALSE]

\* faulty variant: the reset also forgets the listeners
ResetListenersCleared(ls) == {}

\* reset_state assigns _current_state, _history and _metadata only
ResetListeners(ls) == ls

\* reset_state
ResetState ==
    /\ ~Busy
    /\ current_state' = IDLE
    /\ history' = <<>>
    /\ sm_metadata' = EmptyDict
    /\ listeners' = ResetListeners(listeners)
    /\ sm_op' = Some(AdminOp("reset_state", EmptyDict, FALSE))
    /\ result' = [t \in Threads |-> Nothing]
    /\ UNCHANGED <<stack, calls>>
    /\ UNCHANGED <<apVars, plVars, odVars, aiVars,
                   rsVars, hkVars>>

\* return self._metadata.copy()
get_state_metadata(m) == [value |-> m, shared |-> FALSE]

\* get_state_metadata
GetStateMetadata ==
    /\ ~Busy
    /\ LET r == get_state_metadata(sm_metadata)
       IN sm_op' = Some(AdminOp("get_state_metadata", r.value, r.shared))
    /\ result' = [t \in Threads |-> Nothing]
    /\ UNCHANGED <<current_state, listeners, history, sm_metadata, stack, calls>>
    /\ UNCHANGED <<apVars, plVars, odVars, aiVars,
                   rsVars, hkVars>>

\* the caller writes to the mapping get_state_metadata gave it:
\* returned[key] = value
MutateReturned(key, value) ==
    /\ ~Busy
    /\ sm_op # Nothing
    /\ sm_op[1].op = "get_state_metadata"
    /\ ~sm_op[1].mutated
    /\ sm_op' = Some([sm_op[1] EXCEPT
                         !.value = DictUpdate(@, {<<key, value>>}),
                         !.mutated = TRUE])
    /\ sm_metadata' = IF sm_op[1].shared
                      THEN DictUpdate(sm_metadata, {<<key, value>>})
                      ELSE sm_metadata
    /\ UNCHANGED <<current_state, listeners, history, stack, result, calls>>
    /\ UNCHANGED <<apVars, plVars, odVars, aiVars,
                   rsVars, hkVars>>

(* ------------------------------------------------------------------ *)
(* Legacy application: initial state                                   *)
(* ------------------------------------------------------------------ *)

\* Optional[float] None
NoTime == -1

\* the listeners main.py registers with the adapter: log_state_transitions
\* and TrayIconManager._on_state_change
AdapterListeners == {"log_state_transitions", "tray_on_state_change"}

\* the application before it is started: GlobalState's class attributes and
\* AudioProcessor.__init__
InitAppIdle ==
    /\ gs_state = IDLE
    /\ last_text_at = NoTime
    /\ listening_started_at = NoTime
    /\ now = 1
    /\ adapter_history = <<>>
    /\ adapter_calls = [l \in AdapterListeners |-> <<>>]
    /\ hk = Nothing
    /\ op_log = Nothing

(* ------------------------------------------------------------------ *)
(* LegacyStateManagerAdapter                                           *)
(* ------------------------------------------------------------------ *)

\* get_current_state: VoiceTypingState(state_str), IDLE on ValueError
AdapterCurrentState(state_str) ==
    IF state_str \in VoiceTypingState THEN state_str ELSE IDLE

\* the transition set_state records and hands to every listener
AdapterTransition(state_str, new_state, metadata) ==
    StateTransition(AdapterCurrentState(state_str), new_state, metadata)

(* ------------------------------------------------------------------ *)
(* AudioProcessor                                                      *)
(* ------------------------------------------------------------------ *)

\* seconds of inactivity after which listening is switched off
InactivityTimeout == 5

\* what recognition_source.get_result() returns: None, a result without
\* text, a result with text
NoResult == "None"
EmptyText == ""
SomeText == "hello"
RecognitionResults == {NoResult, EmptyText, SomeText}

\* truth value of an Optional[float]
TimeTruthy(t) == t # NoTime /\ t # 0

\* start_listening: the timers after the call made at time t
start_listening(t, lt) ==
    [listening_started_at |-> t, last_text_at |-> NoTime]

\* faulty variant: the time since listening started is measured whatever was typed
ActivityReferenceStartOnly(lt, ls) == ls

\* self.last_text_at if self.last_text_at else self.listening_started_at
ActivityReference(lt, ls) == IF TimeTruthy(lt) THEN lt ELSE ls

\* process_buffer from "current_time = time.time()" on: the state the
\* timeout checks leave, given last_text_at (lt), listening_started_at (ls)
TimeoutCheck(state, lt, ls, t) ==
    IF state = LISTENING /\ ls # NoTime
    THEN IF t - ActivityReference(lt, ls) > InactivityTimeout
         THEN IDLE ELSE state
    ELSE IF state = FINISH_LISTENING /\ lt # NoTime
            /\ t - lt > InactivityTimeout
         THEN IDLE ELSE state

\* process_buffer as a whole: the state, last_text_at and the typed text it
\* leaves when run at time t
process_buffer(state, lt, ls, t, available, res) ==
    IF ~available \/ res = NoResult
    THEN [state |-> state, last_text_at |-> lt, typed |-> EmptyText]
    ELSE LET lt2 == IF res # EmptyText THEN t ELSE lt
         IN [state |-> TimeoutCheck(state, lt2, ls, t),
             last_text_at |-> lt2, typed |-> res]

\* VoiceTyping.voice_typing_loop: one turn that gets a chunk and processes it
\* (an idle turn only sleeps)
ProcessBuffer(available, res) ==
    /\ gs_state # IDLE
    /\ LET out == process_buffer(gs_state, last_text_at, listening_started_at,
                                 now, available, res)
       IN /\ gs_state' = out.state
          /\ last_text_at' = out.last_text_at
          /\ op_log' = Some([op |-> "process_buffer",
                             pre_state |-> gs_state,
                             pre_last_text_at |-> last_text_at,
                             pre_listening_started_at |-> listening_started_at,
                             at |-> now, available |-> available,
                             result |-> res, typed |-> out.typed,
                             post_state |-> out.state,
                             post_history |-> adapter_history,
                             post_calls |-> adapter_calls])
    /\ UNCHANGED <<wiring, listening_started_at, now, adapter_history,
                   adapter_calls, hk>>
    /\ UNCHANGED <<smVars, plVars, saVars, odVars, aiVars,
                   rsVars, hkVars>>

\* time passes
Tick ==
    /\ now < MaxTime
    /\ now' = now + 1
    /\ op_log' = Nothing
    /\ UNCHANGED <<wiring, gs_state, last_text_at, listening_started_at,
                   adapter_history, adapter_calls, hk>>
    /\ UNCHANGED <<smVars, plVars, saVars, odVars, aiVars,
                   rsVars, hkVars>>

(* ------------------------------------------------------------------ *)
(* HotkeyManager                                                       *)
(* ------------------------------------------------------------------ *)

\* Config.HOTKEY_COMBO, and a key outside it
HOTKEY_COMBO == {"cmd", "shift"}
KeyboardKeys == HOTKEY_COMBO \cup {"a"}

\* what the user has done with the combination: whether all its keys were
\* held together since LISTENING was last requested, and the keys still held
\* from the press that ended listening
NoKeyEvent ==
    [event |-> Nothing, combo_held |-> FALSE, stale |-> {}]

\* GlobalState.current_keys = set(), HotkeyManager.__init__
InitHotkeys ==
    /\ current_keys = {}
    /\ combo_pressed = FALSE
    /\ key_log = NoKeyEvent

\* the strings set_state is called with; the last is no VoiceTypingState
HotkeyRequests == {LISTENING, FINISH_LISTENING, "paused"}

HotkeyMetadata == Some({<<"source", "hotkey_manager">>})

\* whether set_state(new_state) changes the state: with a state manager,
\* unless VoiceTypingState(new_state) raises ValueError (the adapter accepts
\* every transition); without one, when the state differs
HotkeyAccepts(w, state_str, new_state) ==
    IF w # "direct"
    THEN new_state \in VoiceTypingState
    ELSE state_str # new_state

\* faulty variant: the timer is reset for every LISTENING request, accepted or not
ResetsTimerAlways(accepted, new_state) == new_state = LISTENING

\* if success: if new_state_enum == VoiceTypingState.LISTENING and
\* self.audio_processor: self.audio_processor.start_listening()
ResetsTimer(accepted, new_state) == accepted /\ new_state = LISTENING

\* the audio_processor HotkeyManager is given: PipelineVoiceTyping has none
HasAudioProcessor(w) == w # "pipeline"

\* HotkeyManager.set_state up to the change of state: through
\* LegacyStateManagerAdapter.set_state (which records the transition and
\* notifies every listener) or by direct assignment
HotkeySetStateCall(new_state, limit) ==
    /\ hk = Nothing
    /\ Len(adapter_history) < limit
    /\ LET accepted == HotkeyAccepts(wiring, gs_state, new_state)
           tr == AdapterTransition(gs_state, new_state, HotkeyMetadata)
       IN /\ hk' = Some([new_state |-> new_state, accepted |-> accepted])
          /\ gs_state' = IF accepted THEN new_state ELSE gs_state
          /\ IF accepted /\ wiring # "direct"
             THEN /\ adapter_history' = Append(adapter_history, tr)
                  /\ adapter_calls' =
                        [l \in AdapterListeners |-> Append(adapter_calls[l], tr)]
             ELSE UNCHANGED <<adapter_history, adapter_calls>>
    /\ op_log' = Nothing
    /\ UNCHANGED <<wiring, last_text_at, listening_started_at, now>>
    /\ UNCHANGED <<smVars, plVars, saVars, odVars, aiVars, rsVars>>

\* HotkeyManager.set_state called by a client of the manager
HotkeySetState(new_state) ==
    /\ HotkeySetStateCall(new_state, MaxAdapterHistory)
    /\ UNCHANGED hkVars

\* the rest of HotkeyManager.set_state: start_listening() after an accepted
\* change to LISTENING, then tray_icon_manager.update_icon()
HotkeyFinish ==
    /\ hk # Nothing
    /\ LET c == hk[1]
           reset == HasAudioProcessor(wiring)
                    /\ ResetsTimer(c.accepted, c.new_state)
           timers == IF reset
                     THEN start_listening(now, last_text_at)
                     ELSE [listening_started_at |-> listening_started_at,
                           last_text_at |-> last_text_at]
       IN /\ listening_started_at' = timers.listening_started_at
          /\ last_text_at' = timers.last_text_at
          /\ op_log' = Some([op |-> "set_state",
                             new_state |-> c.new_state,
                             accepted |-> c.accepted,
                             start_listening_calls |-> IF reset THEN 1 ELSE 0,
                             at |-> now,
                             pre_last_text_at |-> last_text_at,
                             post_last_text_at |-> timers.last_text_at,
                             post_listening_started_at |->
                                 timers.listening_started_at])
    /\ hk' = Nothing
    /\ UNCHANGED <<wiring, gs_state, now, adapter_history, adapter_calls>>
    /\ UNCHANGED <<smVars, plVars, saVars, odVars, aiVars,
                   rsVars, hkVars>>

(* ---- HotkeyManager.on_press and on_release ---- *)

\* what on_press and on_release leave for the record of the user's doing
KeyLog(event, combo_held, stale) ==
    [event |-> event, combo_held |-> combo_held, stale |-> stale]

\* on_press(key): a key of the combination joins current_keys, and the flag
\* is set when the whole combination is held
OnPress(key) ==
    /\ ~quiet
    /\ hk = Nothing
    /\ LET keys == IF key \in HOTKEY_COMBO
                   THEN current_keys \cup {key} ELSE current_keys
       IN /\ current_keys' = keys
          /\ combo_pressed' = (combo_pressed \/ keys = HOTKEY_COMBO)
          /\ key_log' = KeyLog(Nothing,
                               key_log.combo_held \/ keys = HOTKEY_COMBO,
                               IF keys = HOTKEY_COMBO
                               THEN {} ELSE key_log.stale)
    /\ UNCHANGED <<smVars, apVars, plVars, saVars, odVars, aiVars, rsVars>>

\* faulty variant: releasing a key while listening does not clear the flag
FlagAfterStopKept(flag) == flag

\* self._combo_pressed = False  # Reset the flag to prevent starting again
FlagAfterStop(flag) == FALSE

\* what on_release(key) asks set_state for, with the keys still held: to
\* finish when listening and a key of the combination is released, to listen
\* when not listening, the combination was pressed and no key is held
ReleaseRequest(state, key, keys, flag) ==
    IF state = LISTENING /\ key \in HOTKEY_COMBO
    THEN Some(FINISH_LISTENING)
    ELSE IF state # LISTENING /\ flag /\ keys = {}
         THEN Some(LISTENING)
         ELSE Nothing

\* on_release(key) of a key that was held, up to the change of state that
\* its set_state call makes
OnRelease(key) ==
    /\ ~quiet
    /\ hk = Nothing
    /\ key \in HOTKEY_COMBO => key \in current_keys
    /\ LET keys == current_keys \ {key}
           request == ReleaseRequest(gs_state, key, keys, combo_pressed)
           event == Some([key |-> key, keys |-> keys, request |-> request,
                          state |-> gs_state,
                          combo_held |-> key_log.combo_held,
                          stale |-> key_log.stale])
       IN /\ current_keys' = keys
          /\ combo_pressed' =
                IF request = Nothing THEN combo_pressed
                ELSE IF request = Some(LISTENING) THEN FALSE
                ELSE FlagAfterStop(combo_pressed)
          /\ key_log' =
                IF request = Some(LISTENING)
                THEN KeyLog(event, FALSE, {})
                ELSE IF request = Some(FINISH_LISTENING)
                THEN KeyLog(event, key_log.combo_held, keys)
                ELSE KeyLog(event, key_log.combo_held, key_log.stale \ {key})
          /\ IF request = Nothing
             THEN UNCHANGED <<smVars, apVars, plVars, saVars, odVars, aiVars,
                              rsVars>>
             ELSE HotkeySetStateCall(request[1], MaxKeyHistory)

\* TrayIconManager._current_state: IDLE, then the to_state of the last
\* transition _on_state_change received
TrayCurrentState ==
    LET received == adapter_calls["tray_on_state_change"]
    IN IF received = <<>> THEN IDLE ELSE received[Len(received)].to_state

(* ------------------------------------------------------------------ *)
(* Audio pipeline: stages and coordinator                              *)
(* ------------------------------------------------------------------ *)

CAPTURE == "capture"
BUFFERING == "buffering"
RECOGNITION == "recognition"
Stages == {CAPTURE, BUFFERING, RECOGNITION}
\* the stages that run a loop task
WorkerStages == {BUFFERING, RECOGNITION}
WorkerIds == 1..MaxWorkers

\* the pipeline after AudioPipelineCoordinator.initialize(): stages created
\* and wired to two empty queues, nothing started
InitPipeline ==
    /\ co_running = FALSE
    /\ stage_running = [s \in Stages |-> FALSE]
    /\ capturing = FALSE
    /\ task = [s \in WorkerStages |-> 0]
    /\ worker = [s \in WorkerStages |-> [w \in WorkerIds |-> "none"]]
    /\ put_pending = [w \in WorkerIds |-> <<>>]
    /\ buffer = <<>>
    /\ q1 = <<>>
    /\ q2 = <<>>
    /\ scheduled = <<>>
    /\ putters = <<>>
    /\ woken = <<>>
    /\ next_chunk = 1
    /\ dequeued = <<>>
    /\ emitted = <<>>
    /\ processed = <<>>
    /\ co_todo = <<>>
    /\ started = <<>>
    /\ co_ret = Nothing
    /\ cleaned = {}
    /\ quiet = FALSE

plEnv == <<audio_available, rec_available, quiet>>
plLoop == <<scheduled, putters, woken>>
plLog == <<dequeued, emitted, processed>>
plCaller == <<co_todo, started, co_ret, cleaned>>

\* one step of the caller's coroutine: a stage call, or the return of the
\* coordinator call it belongs to
Op(op, stage, call, value) ==
    [op |-> op, stage |-> stage, call |-> call, value |-> value]

\* a call that has returned: its value, and for start() whether it found
\* the stage running
Returned(call, stage, value, found) ==
    Some([call |-> call, stage |-> stage, value |-> value,
          found_running |-> found, raised |-> FALSE])

\* a call that ended with an exception
Raised(call, stage) ==
    Some([call |-> call, stage |-> stage, value |-> FALSE,
          found_running |-> FALSE, raised |-> TRUE])

\* a loop task that has been created and has not ended
Alive(s, w) == worker[s][w] \notin {"none", "done"}

AliveWorkers(s) == {w \in WorkerIds : Alive(s, w)}

\* the id the next loop task of stage s gets
FreeWorker(s) == CHOOSE w \in WorkerIds :
    worker[s][w] = "none" /\ \A v \in WorkerIds : v < w => worker[s][v] # "none"

\* while self._running: the loop's next turn, or its end
LoopHead(s) == IF stage_running[s] THEN "waiting" ELSE "done"

(* ---- the stages' start() ---- *)

\* faulty variant: start() without its guard
AlreadyRunningNever(s) == FALSE

\* if self._running: return True
AlreadyRunning(s) == stage_running[s]

\* the checks start() makes before it starts anything: the capture stage asks
\* is_available() and start_capture() (which refuses a second stream), the
\* buffering stage that both queues are set (initialize() sets them, and a
\* Queue is always true), the recognition stage is_available()
Available(s) ==
    CASE s = CAPTURE -> audio_available /\ ~capturing
      [] s = BUFFERING -> TRUE
      [] s = RECOGNITION -> rec_available

\* what start() returns
StartResult(s) == AlreadyRunning(s) \/ Available(s)

Spawns(s) == ~AlreadyRunning(s) /\ Available(s)

\* what start() does: the capture stage registers audio_callback and sets
\* _running, the other stages set _running and create their loop task
StartEffect(s) ==
    IF ~Spawns(s)
    THEN UNCHANGED <<stage_running, capturing, task, worker>>
    ELSE /\ stage_running' = [stage_running EXCEPT ![s] = TRUE]
         /\ IF s = CAPTURE
            THEN /\ capturing' = TRUE
                 /\ UNCHANGED <<task, worker>>
            ELSE /\ \E w \in WorkerIds : worker[s][w] = "none"
                 /\ task' = [task EXCEPT ![s] = FreeWorker(s)]
                 /\ worker' = [worker EXCEPT ![s][FreeWorker(s)] = "created"]
                 /\ UNCHANGED capturing

(* ---- the audio source's thread and the puts it posts ---- *)

\* the event loop runs its other tasks only while the caller's coroutine is
\* suspended in an await or has returned
LoopFree == IF co_todo = <<>> THEN TRUE ELSE Head(co_todo).op = "join"

\* audio_callback(chunk), called by the audio source while it captures:
\* if self._output_queue and self._running, run_coroutine_threadsafe(put)
DeliverChunk ==
    /\ capturing
    /\ next_chunk <= MaxChunks
    /\ next_chunk' = next_chunk + 1
    /\ scheduled' = IF stage_running[CAPTURE]
                    THEN Append(scheduled, next_chunk)
                    ELSE scheduled
    /\ UNCHANGED <<putters, woken>>
    /\ UNCHANGED <<co_running, stage_running, capturing, task, worker,
                   put_pending, buffer, q1, q2>>
    /\ UNCHANGED <<plEnv, plLog, plCaller>>
    /\ UNCHANGED <<smVars, apVars, saVars, odVars, aiVars,
                   rsVars, hkVars>>

\* asyncio.Queue.put as the event loop runs it: put_nowait if there is
\* room, else the coroutine joins the queue's waiting putters
QueuePut(c) ==
    IF Len(q1) < QueueSize
    THEN /\ q1' = Append(q1, c)
         /\ UNCHANGED putters
    ELSE /\ putters' = Append(putters, c)
         /\ UNCHANGED q1

\* the event loop runs a posted put for the first time
RunScheduledPut ==
    /\ LoopFree
    /\ scheduled # <<>>
    /\ QueuePut(Head(scheduled))
    /\ scheduled' = Tail(scheduled)
    /\ UNCHANGED woken
    /\ UNCHANGED <<co_running, stage_running, capturing, task, worker,
                   put_pending, buffer, q2, next_chunk>>
    /\ UNCHANGED <<plEnv, plLog, plCaller>>
    /\ UNCHANGED <<smVars, apVars, saVars, odVars, aiVars,
                   rsVars, hkVars>>

\* the event loop resumes a put that a get has woken: while self.full() is
\* evaluated again, so the put waits again if another put took the place
ResumePutter ==
    /\ LoopFree
    /\ woken # <<>>
    /\ QueuePut(Head(woken))
    /\ woken' = Tail(woken)
    /\ UNCHANGED scheduled
    /\ UNCHANGED <<co_running, stage_running, capturing, task, worker,
                   put_pending, buffer, q2, next_chunk>>
    /\ UNCHANGED <<plEnv, plLog, plCaller>>
    /\ UNCHANGED <<smVars, apVars, saVars, odVars, aiVars,
                   rsVars, hkVars>>

\* asyncio.Queue.get_nowait on the capture queue, n times: each takes the
\* oldest item and wakes the longest waiting putter
WakeCount(n) == IF n < Len(putters) THEN n ELSE Len(putters)

QueueGet(n) ==
    /\ q1' = SubSeq(q1, n + 1, Len(q1))
    /\ woken' = woken \o SubSeq(putters, 1, WakeCount(n))
    /\ putters' = SubSeq(putters, WakeCount(n) + 1, Len(putters))

(* ---- AudioBufferingStage._buffering_loop ---- *)

\* the first run of a loop task: while self._running
WorkerBegin(s, w) ==
    /\ LoopFree
    /\ worker[s][w] = "created"
    /\ worker' = [worker EXCEPT ![s][w] = LoopHead(s)]
    /\ UNCHANGED <<co_running, stage_running, capturing, task,
                   put_pending, buffer, q1, q2, next_chunk>>
    /\ UNCHANGED <<plEnv, plLoop, plLog, plCaller>>
    /\ UNCHANGED <<smVars, apVars, saVars, odVars, aiVars,
                   rsVars, hkVars>>

\* faulty variant: the buffer is flushed one chunk late
ShouldFlushLate(acc) == Len(acc) > BufferSize

\* if len(self._buffer) >= self._buffer_size
ShouldFlush(acc) == Len(acc) >= BufferSize

\* _flush_buffer with the accumulator acc: copy, clear, put; the put waits
\* while the output queue is full
FlushBuffer(w, acc, why) ==
    /\ buffer' = <<>>
    /\ emitted' = Append(emitted, [chunks |-> acc, why |-> why])
    /\ IF Len(q2) < QueueSize
       THEN /\ q2' = Append(q2, acc)
            /\ worker' = [worker EXCEPT ![BUFFERING][w] = LoopHead(BUFFERING)]
            /\ UNCHANGED put_pending
       ELSE /\ worker' = [worker EXCEPT ![BUFFERING][w] = "putting"]
            /\ put_pending' = [put_pending EXCEPT ![w] = acc]
            /\ UNCHANGED q2

\* one turn of the loop that gets a chunk
BufferingGet(w) ==
    /\ LoopFree
    /\ worker[BUFFERING][w] = "waiting"
    /\ q1 # <<>>
    /\ QueueGet(1)
    /\ dequeued' = Append(dequeued, Head(q1))
    /\ LET acc == Append(buffer, Head(q1))
       IN IF ShouldFlush(acc)
          THEN FlushBuffer(w, acc, "size")
          ELSE /\ buffer' = acc
               /\ worker' = [worker EXCEPT
                                ![BUFFERING][w] = LoopHead(BUFFERING)]
               /\ UNCHANGED <<emitted, q2, put_pending>>
    /\ UNCHANGED <<co_running, stage_running, capturing, task, scheduled,
                   next_chunk, processed>>
    /\ UNCHANGED <<plEnv, plCaller>>
    /\ UNCHANGED <<smVars, apVars, saVars, odVars, aiVars,
                   rsVars, hkVars>>

\* one turn of the loop whose get times out
BufferingTimeout(w) ==
    /\ LoopFree
    /\ worker[BUFFERING][w] = "waiting"
    /\ q1 = <<>>
    /\ IF buffer # <<>>
       THEN FlushBuffer(w, buffer, "timeout")
       ELSE /\ worker' = [worker EXCEPT
                             ![BUFFERING][w] = LoopHead(BUFFERING)]
            /\ UNCHANGED <<buffer, emitted, q2, put_pending>>
    /\ UNCHANGED <<co_running, stage_running, capturing, task, q1,
                   next_chunk, dequeued, processed>>
    /\ UNCHANGED <<plEnv, plLoop, plCaller>>
    /\ UNCHANGED <<smVars, apVars, saVars, odVars, aiVars,
                   rsVars, hkVars>>

\* the put of _flush_buffer goes through once the output queue has room
BufferingPut(w) ==
    /\ LoopFree
    /\ worker[BUFFERING][w] = "putting"
    /\ Len(q2) < QueueSize
    /\ q2' = Append(q2, put_pending[w])
    /\ put_pending' = [put_pending EXCEPT ![w] = <<>>]
    /\ worker' = [worker EXCEPT ![BUFFERING][w] = LoopHead(BUFFERING)]
    /\ UNCHANGED <<co_running, stage_running, capturing, task, buffer, q1,
                   next_chunk>>
    /\ UNCHANGED <<plEnv, plLoop, plLog, plCaller>>
    /\ UNCHANGED <<smVars, apVars, saVars, odVars, aiVars,
                   rsVars, hkVars>>

(* ---- RecognitionStage._recognition_loop ---- *)

\* one turn of the loop that gets a buffer: every chunk of it is passed to
\* process_audio_chunk (get_result and the output callback change nothing
\* of the pipeline)
RecognitionGet(w) ==
    /\ LoopFree
    /\ worker[RECOGNITION][w] = "waiting"
    /\ q2 # <<>>
    /\ q2' = Tail(q2)
    /\ processed' = processed \o Head(q2)
    /\ worker' = [worker EXCEPT ![RECOGNITION][w] = LoopHead(RECOGNITION)]
    /\ UNCHANGED <<co_running, stage_running, capturing, task, put_pending,
                   buffer, q1, next_chunk, dequeued, emitted>>
    /\ UNCHANGED <<plEnv, plLoop, plCaller>>
    /\ UNCHANGED <<smVars, apVars, saVars, odVars, aiVars,
                   rsVars, hkVars>>

\* one turn of the loop whose get times out
RecognitionTimeout(w) ==
    /\ LoopFree
    /\ worker[RECOGNITION][w] = "waiting"
    /\ q2 = <<>>
    /\ worker' = [worker EXCEPT ![RECOGNITION][w] = LoopHead(RECOGNITION)]
    /\ UNCHANGED <<co_running, stage_running, capturing, task, put_pending,
                   buffer, q1, q2, next_chunk>>
    /\ UNCHANGED <<plEnv, plLoop, plLog, plCaller>>
    /\ UNCHANGED <<smVars, apVars, saVars, odVars, aiVars,
                   rsVars, hkVars>>

(* ---- _recognition_loop with its recognition source and callback ---- *)

InitRecognition ==
    /\ rs_turn = Nothing
    /\ rs_failed = {}

\* a call that raises an exception
Raises == "raises"

\* get_result() was not called
NotPolled == "not polled"

\* a result dict that has no "text" key
NoTextKey == "no text key"

\* what the recognition source and the output callback do during one turn of
\* the loop: the chunk at which process_audio_chunk raises (0: none), what
\* get_result() returns or that it raises, and what the callback does
SourceOutcomes ==
    [feed_raises_at : 0..BufferSize,
     get_result : RecognitionResults \cup {NoTextKey, Raises},
     callback : {"returns", Raises}]

\* faulty variant: an empty text is forwarded too
HasTextUnlessNone(res) == res \notin {NoResult, NoTextKey, Raises}

\* result and result.get("text")
HasText(res) == res \notin {NoResult, NoTextKey, EmptyText, Raises}

\* faulty variant: no exception is caught
CaughtNever(kind) == FALSE

\* the except Exception clause covers the try body, where a buffer is
\* handled; the timeout tick runs inside the except asyncio.TimeoutError
\* clause, which no clause of the same try covers
Caught(kind) == kind = "buffer"

\* one turn of the loop, for a buffer (kind "buffer") or after the get timed
\* out (kind "idle"): the chunks passed to process_audio_chunk, the
\* get_result() calls, the texts the callback was called with, the call that
\* result polled, the call that raised, and whether the exception ended
\* the loop
Turn(kind, buf, src) ==
    LET feed_raised == kind = "buffer" /\ src.feed_raises_at \in 1..Len(buf)
        fed == IF kind = "idle" THEN <<>>
               ELSE IF feed_raised THEN SubSeq(buf, 1, src.feed_raises_at)
               ELSE buf
        called == IF ~feed_raised /\ HasText(src.get_result)
                  THEN <<src.get_result>> ELSE <<>>
        raised == IF feed_raised THEN "process_audio_chunk"
                  ELSE IF src.get_result = Raises THEN "get_result"
                  ELSE IF called # <<>> /\ src.callback = Raises
                       THEN "output_callback"
                  ELSE "none"
    IN [kind |-> kind, buffer |-> buf, fed |-> fed,
        polls |-> IF feed_raised THEN 0 ELSE 1,
        result |-> IF feed_raised THEN NotPolled ELSE src.get_result,
        called |-> called, raised |-> raised,
        ended |-> raised # "none" /\ ~Caught(kind)]

\* the loop task of the stage ended with an exception
TaskFailed(s) == s = RECOGNITION /\ task[s] \in rs_failed

\* what a turn leaves: the log, and the loop at its head again or ended
\* with the exception (self._running is not touched)
EndTurn(w, t) ==
    /\ processed' = processed \o t.fed
    /\ rs_turn' = Some([turn |-> t, worker |-> w,
                        still_running |-> stage_running[RECOGNITION],
                        after_feed_error |->
                            /\ rs_turn # Nothing
                            /\ rs_turn[1].turn.raised = "process_audio_chunk"])
    /\ IF t.ended
       THEN /\ worker' = [worker EXCEPT ![RECOGNITION][w] = "done"]
            /\ rs_failed' = rs_failed \cup {w}
       ELSE /\ worker' = [worker EXCEPT
                             ![RECOGNITION][w] = LoopHead(RECOGNITION)]
            /\ UNCHANGED rs_failed

\* one turn of the loop that gets a buffer: the chunks are fed, get_result()
\* is polled and a text is passed to the callback
RecognizeBuffer(w, src) ==
    /\ LoopFree
    /\ worker[RECOGNITION][w] = "waiting"
    /\ q2 # <<>>
    /\ q2' = Tail(q2)
    /\ EndTurn(w, Turn("buffer", Head(q2), src))
    /\ UNCHANGED <<co_running, stage_running, capturing, task, put_pending,
                   buffer, q1, next_chunk, dequeued, emitted>>
    /\ UNCHANGED <<plEnv, plLoop, plCaller>>
    /\ UNCHANGED <<smVars, apVars, saVars, odVars, aiVars, hkVars>>

\* one turn of the loop whose get times out: get_result() is polled and a
\* text is passed to the callback
RecognizeIdle(w, src) ==
    /\ LoopFree
    /\ worker[RECOGNITION][w] = "waiting"
    /\ q2 = <<>>
    /\ EndTurn(w, Turn("idle", <<>>, src))
    /\ UNCHANGED <<co_running, stage_running, capturing, task, put_pending,
                   buffer, q1, q2, next_chunk, dequeued, emitted>>
    /\ UNCHANGED <<plEnv, plLoop, plCaller>>
    /\ UNCHANGED <<smVars, apVars, saVars, odVars, aiVars, hkVars>>

\* a caller puts a buffer of n chunks on the stage's input queue
OfferBuffer(n) ==
    /\ co_todo = <<>>
    /\ Len(q2) < QueueSize
    /\ next_chunk + n - 1 <= MaxChunks
    /\ q2' = Append(q2, [i \in 1..n |-> next_chunk + i - 1])
    /\ next_chunk' = next_chunk + n
    /\ UNCHANGED rsVars
    /\ UNCHANGED <<co_running, stage_running, capturing, task, worker,
                   put_pending, buffer, q1>>
    /\ UNCHANGED <<plEnv, plLoop, plLog, plCaller>>
    /\ UNCHANGED <<smVars, apVars, saVars, odVars, aiVars, hkVars>>

(* ---- the caller's coroutine: stage calls in the order the code makes ---- *)

Calling(op, s) ==
    /\ co_todo # <<>>
    /\ Head(co_todo).op = op
    /\ Head(co_todo).stage = s

\* await stage.start() inside start_pipeline
StartStage(s) ==
    /\ Calling("start", s)
    /\ StartEffect(s)
    /\ started' = Append(started, StartResult(s))
    /\ co_todo' = Tail(co_todo)
    /\ UNCHANGED <<co_running, put_pending, buffer, q1, q2, next_chunk,
                   co_ret, cleaned>>
    /\ UNCHANGED <<plEnv, plLoop, plLog>>
    /\ UNCHANGED <<smVars, apVars, saVars, odVars, aiVars,
                   rsVars, hkVars>>

\* stage.stop(): the capture stage stops the audio source if it runs; the
\* other stages clear _running and, if they have a task, await it (a task
\* that has ended is awaited without suspending)
StopStage(s) ==
    /\ Calling("stop", s)
    /\ ~TaskFailed(s)
    /\ stage_running' = [stage_running EXCEPT ![s] = FALSE]
    /\ IF s = CAPTURE
       THEN /\ capturing' = IF stage_running[s] THEN FALSE ELSE capturing
            /\ co_todo' = Tail(co_todo)
            /\ UNCHANGED task
       ELSE /\ IF task[s] # 0 /\ Alive(s, task[s])
               THEN /\ co_todo' = <<Op("join", s, "", FALSE)>> \o Tail(co_todo)
                    /\ UNCHANGED task
               ELSE /\ co_todo' = Tail(co_todo)
                    /\ task' = [task EXCEPT ![s] = 0]
            /\ UNCHANGED capturing
    /\ UNCHANGED <<co_running, worker, put_pending, buffer, q1, q2,
                   next_chunk, started, co_ret, cleaned>>
    /\ UNCHANGED <<plEnv, plLoop, plLog>>
    /\ UNCHANGED <<smVars, apVars, saVars, odVars, aiVars,
                   rsVars, hkVars>>

\* faulty variant: stop() goes on without waiting for its task
TaskDoneAlways(s) == TRUE

\* await self._task is over when the loop task has ended
TaskDone(s) == ~Alive(s, task[s])

\* the event loop runs what is ready in the order it became ready: before
\* the awaiting coroutine resumes, the puts woken by the task's gets have
\* run, and so have the posted puts unless the audio thread still posts
ReadyHandlesRun == woken = <<>> /\ (capturing \/ scheduled = <<>>)

\* the rest of stop(): await self._task; self._task = None
Join(s) ==
    /\ Calling("join", s)
    /\ TaskDone(s)
    /\ ~TaskFailed(s)
    /\ ReadyHandlesRun
    /\ task' = [task EXCEPT ![s] = 0]
    /\ co_todo' = Tail(co_todo)
    /\ UNCHANGED <<co_running, stage_running, capturing, worker, put_pending,
                   buffer, q1, q2, next_chunk, started, co_ret, cleaned>>
    /\ UNCHANGED <<plEnv, plLoop, plLog>>
    /\ UNCHANGED <<smVars, apVars, saVars, odVars, aiVars,
                   rsVars, hkVars>>

\* stop() when the loop task has ended with an exception, before the call
\* or while stop() awaits it: self._running = False, then await self._task
\* raises the loop task's exception, which ends the caller's coroutine
StopRaises(s) ==
    /\ Calling("stop", s) \/ Calling("join", s)
    /\ TaskFailed(s)
    /\ stage_running' = [stage_running EXCEPT ![s] = FALSE]
    /\ co_ret' = Raised(co_todo[Len(co_todo)].call, s)
    /\ co_todo' = <<>>
    /\ UNCHANGED <<co_running, capturing, task, worker, put_pending, buffer,
                   q1, q2, next_chunk, started, cleaned>>
    /\ UNCHANGED <<plEnv, plLoop, plLog>>
    /\ UNCHANGED <<smVars, apVars, saVars, odVars, aiVars, rsVars, hkVars>>

\* the call returns to its caller
Return ==
    /\ co_todo # <<>>
    /\ Head(co_todo).op = "return"
    /\ co_ret' = Returned(Head(co_todo).call, Head(co_todo).stage,
                          Head(co_todo).value, FALSE)
    /\ co_todo' = Tail(co_todo)
    /\ UNCHANGED <<co_running, stage_running, capturing, task, worker,
                   put_pending, buffer, q1, q2, next_chunk, started, cleaned>>
    /\ UNCHANGED <<plEnv, plLoop, plLog>>
    /\ UNCHANGED <<smVars, apVars, saVars, odVars, aiVars,
                   rsVars, hkVars>>

(* ---- AudioPipelineCoordinator ---- *)

\* start_pipeline starts recognition, buffering, then capture
StartOrder == <<RECOGNITION, BUFFERING, CAPTURE>>

\* stop_pipeline stops capture, buffering, then recognition
StopOrder == <<CAPTURE, BUFFERING, RECOGNITION>>

\* the stage calls of stop_pipeline: none if not self._running
stop_pipeline(running) ==
    IF ~running
    THEN <<>>
    ELSE [i \in 1..Len(StopOrder) |-> Op("stop", StopOrder[i], "", FALSE)]

\* start_pipeline up to its first stage call
StartPipeline ==
    /\ co_todo = <<>>
    /\ IF co_running
       THEN /\ co_ret' = Returned("start_pipeline", "all", TRUE, TRUE)
            /\ UNCHANGED <<co_todo, started>>
       ELSE /\ co_ret' = Nothing
            /\ started' = <<>>
            /\ co_todo' =
                 [i \in 1..Len(StartOrder) |->
                     Op("start", StartOrder[i], "", FALSE)]
                 \o <<Op("check", "all", "", FALSE)>>
    /\ UNCHANGED <<co_running, stage_running, capturing, task, worker,
                   put_pending, buffer, q1, q2, next_chunk, cleaned>>
    /\ UNCHANGED <<plEnv, plLoop, plLog>>
    /\ UNCHANGED <<smVars, apVars, saVars, odVars, aiVars,
                   rsVars, hkVars>>

\* if all(stages_started): ... else: await self.stop_pipeline(); return False
CheckStarted ==
    /\ Calling("check", "all")
    /\ IF \A i \in 1..Len(started) : started[i]
       THEN /\ co_running' = TRUE
            /\ co_todo' = <<Op("return", "all", "start_pipeline", TRUE)>>
       ELSE /\ co_running' = FALSE
            /\ co_todo' = stop_pipeline(co_running)
                          \o <<Op("return", "all", "start_pipeline", FALSE)>>
    /\ UNCHANGED <<stage_running, capturing, task, worker, put_pending,
                   buffer, q1, q2, next_chunk, started, co_ret, cleaned>>
    /\ UNCHANGED <<plEnv, plLoop, plLog>>
    /\ UNCHANGED <<smVars, apVars, saVars, odVars, aiVars,
                   rsVars, hkVars>>

\* stop_pipeline up to its first stage call
StopPipeline ==
    /\ co_todo = <<>>
    /\ co_ret' = Nothing
    /\ co_running' = FALSE
    /\ co_todo' = stop_pipeline(co_running)
                  \o <<Op("return", "all", "stop_pipeline", TRUE)>>
    /\ UNCHANGED <<stage_running, capturing, task, worker, put_pending,
                   buffer, q1, q2, next_chunk, started, cleaned>>
    /\ UNCHANGED <<plEnv, plLoop, plLog>>
    /\ UNCHANGED <<smVars, apVars, saVars, odVars, aiVars,
                   rsVars, hkVars>>

\* cleanup up to its first stage call: stop_pipeline, then each stage's
\* cleanup (which calls the stage's stop first), then both queues are emptied
Cleanup ==
    /\ co_todo = <<>>
    /\ co_ret' = Nothing
    /\ cleaned' = {}
    /\ co_running' = FALSE
    /\ co_todo' = stop_pipeline(co_running)
                  \o <<Op("cleanup", CAPTURE, "", FALSE),
                       Op("stop", BUFFERING, "", FALSE),
                       Op("clear", BUFFERING, "", FALSE),
                       Op("stop", RECOGNITION, "", FALSE),
                       Op("release", RECOGNITION, "", FALSE),
                       Op("drain", "all", "", FALSE),
                       Op("return", "all", "cleanup", TRUE)>>
    /\ UNCHANGED <<stage_running, capturing, task, worker, put_pending,
                   buffer, q1, q2, next_chunk, started>>
    /\ UNCHANGED <<plEnv, plLoop, plLog>>
    /\ UNCHANGED <<smVars, apVars, saVars, odVars, aiVars,
                   rsVars, hkVars>>

\* AudioCaptureStage.cleanup: stop(), then the audio source's cleanup()
\* (which stops its capture)
CleanupCapture ==
    /\ Calling("cleanup", CAPTURE)
    /\ stage_running' = [stage_running EXCEPT ![CAPTURE] = FALSE]
    /\ capturing' = FALSE
    /\ cleaned' = cleaned \cup {CAPTURE}
    /\ co_todo' = Tail(co_todo)
    /\ UNCHANGED <<co_running, task, worker, put_pending, buffer, q1, q2,
                   next_chunk, started, co_ret>>
    /\ UNCHANGED <<plEnv, plLoop, plLog>>
    /\ UNCHANGED <<smVars, apVars, saVars, odVars, aiVars,
                   rsVars, hkVars>>

\* the rest of AudioBufferingStage.cleanup: self._buffer.clear(); what the
\* loop took and flushed is counted anew from here
ClearBuffer ==
    /\ Calling("clear", BUFFERING)
    /\ buffer' = <<>>
    /\ dequeued' = <<>>
    /\ emitted' = <<>>
    /\ cleaned' = cleaned \cup {BUFFERING}
    /\ co_todo' = Tail(co_todo)
    /\ UNCHANGED <<co_running, stage_running, capturing, task, worker,
                   put_pending, q1, q2, next_chunk, processed, started, co_ret>>
    /\ UNCHANGED <<plEnv, plLoop>>
    /\ UNCHANGED <<smVars, apVars, saVars, odVars, aiVars,
                   rsVars, hkVars>>

\* the rest of RecognitionStage.cleanup: self._recognition_source.cleanup()
ReleaseRecognition ==
    /\ Calling("release", RECOGNITION)
    /\ cleaned' = cleaned \cup {RECOGNITION}
    /\ co_todo' = Tail(co_todo)
    /\ UNCHANGED <<co_running, stage_running, capturing, task, worker,
                   put_pending, buffer, q1, q2, next_chunk, started, co_ret>>
    /\ UNCHANGED <<plEnv, plLoop, plLog>>
    /\ UNCHANGED <<smVars, apVars, saVars, odVars, aiVars,
                   rsVars, hkVars>>

\* the end of cleanup: get_nowait() on each queue until it is empty
DrainQueues ==
    /\ Calling("drain", "all")
    /\ QueueGet(Len(q1))
    /\ q2' = <<>>
    /\ co_todo' = Tail(co_todo)
    /\ UNCHANGED <<co_running, stage_running, capturing, task, worker,
                   put_pending, buffer, scheduled, next_chunk, started,
                   co_ret, cleaned>>
    /\ UNCHANGED <<plEnv, plLog>>
    /\ UNCHANGED <<smVars, apVars, saVars, odVars, aiVars,
                   rsVars, hkVars>>

(* ---- a caller that uses one stage directly ---- *)

\* await stage.start()
CallStageStart(s) ==
    /\ co_todo = <<>>
    /\ StartEffect(s)
    /\ co_ret' = Returned("start", s, StartResult(s), stage_running[s])
    /\ UNCHANGED <<co_running, put_pending, buffer, q1, q2, next_chunk,
                   co_todo, started, cleaned>>
    /\ UNCHANGED <<plEnv, plLoop, plLog>>
    /\ UNCHANGED <<smVars, apVars, saVars, odVars, aiVars,
                   rsVars, hkVars>>

\* await stage.stop(), up to its first statement
CallStageStop(s) ==
    /\ co_todo = <<>>
    /\ co_ret' = Nothing
    /\ co_todo' = <<Op("stop", s, "", FALSE), Op("return", s, "stop", TRUE)>>
    /\ UNCHANGED <<co_running, stage_running, capturing, task, worker,
                   put_pending, buffer, q1, q2, next_chunk, started, cleaned>>
    /\ UNCHANGED <<plEnv, plLoop, plLog>>
    /\ UNCHANGED <<smVars, apVars, saVars, odVars, aiVars,
                   rsVars, hkVars>>

(* ---- the environment ---- *)

\* the audio device appears or disappears
AudioDeviceChange ==
    /\ audio_available' = ~audio_available
    /\ UNCHANGED <<rec_available, quiet>>
    /\ UNCHANGED <<co_running, stage_running, capturing, task, worker,
                   put_pending, buffer, q1, q2, next_chunk>>
    /\ UNCHANGED <<plLoop, plLog, plCaller>>
    /\ UNCHANGED <<smVars, apVars, saVars, odVars, aiVars,
                   rsVars, hkVars>>

\* the recognition source becomes available or unavailable
RecognitionSourceChange ==
    /\ rec_available' = ~rec_available
    /\ UNCHANGED <<audio_available, quiet>>
    /\ UNCHANGED <<co_running, stage_running, capturing, task, worker,
                   put_pending, buffer, q1, q2, next_chunk>>
    /\ UNCHANGED <<plLoop, plLog, plCaller>>
    /\ UNCHANGED <<smVars, apVars, saVars, odVars, aiVars,
                   rsVars, hkVars>>

(* ---- PipelineVoiceTyping._run_pipeline ---- *)

\* AudioPipelineCoordinator.is_pipeline_running
is_pipeline_running ==
    /\ co_running
    /\ stage_running[CAPTURE] /\ capturing
    /\ stage_running[BUFFERING]
    /\ stage_running[RECOGNITION]

\* one turn of the while self._running loop: start the pipeline when the
\* state is listening or finish_listening, stop it otherwise
SupervisorTurn ==
    IF gs_state \in {LISTENING, FINISH_LISTENING}
    THEN ~is_pipeline_running /\ StartPipeline
    ELSE is_pipeline_running /\ StopPipeline

\* a key event of the user handled by HotkeyManager
UserHotkey(new_state) == ~quiet /\ HotkeySetState(new_state)

\* a component that holds the GlobalState assigns state_ref.state
AssignState(new_state) ==
    /\ ~quiet
    /\ hk = Nothing
    /\ gs_state # new_state
    /\ gs_state' = new_state
    /\ op_log' = Nothing
    /\ UNCHANGED <<wiring, last_text_at, listening_started_at, now,
                   adapter_history, adapter_calls, hk>>
    /\ UNCHANGED <<smVars, plVars, saVars, odVars, aiVars, rsVars, hkVars>>

\* the user leaves: no key event from here on
UserLeaves ==
    /\ ~quiet
    /\ quiet' = TRUE
    /\ UNCHANGED <<audio_available, rec_available>>
    /\ UNCHANGED <<co_running, stage_running, capturing, task, worker,
                   put_pending, buffer, q1, q2, next_chunk>>
    /\ UNCHANGED <<plLoop, plLog, plCaller>>
    /\ UNCHANGED <<smVars, apVars, saVars, odVars, aiVars,
                   rsVars, hkVars>>

(* ------------------------------------------------------------------ *)
(* OutputDispatcher                                                    *)
(* ------------------------------------------------------------------ *)

\* what a target's deliver_text does when it is called
TargetKind ==
    [t \in {"keyboard", "refusing", "failing"} |->
        CASE t = "keyboard" -> "accepts"
          [] t = "refusing" -> "refuses"
          [] t = "failing" -> "raises"]

OutputTargets == DOMAIN TargetKind

\* what an event listener does when it is called
OutputListenerKind ==
    [l \in {"on_text", "failing_listener"} |->
        CASE l = "on_text" -> "returns"
          [] l = "failing_listener" -> "raises"]

OutputListeners == DOMAIN OutputListenerKind

\* the text arguments callers pass: None, "" and a recognised text
Texts == {Nothing, Some(""), Some("hello")}

\* the metadata arguments callers pass: None, {}, a dict without and a dict
\* with a timestamp of the caller's
DispatchMetadataArgs ==
    {Nothing, Some(EmptyDict), Some({<<"confidence", 1>>}),
     Some({<<"confidence", 1>>, <<"timestamp", 0>>})}

\* OutputDispatcher.__init__; every target is available
InitDispatcher ==
    /\ od_initialized = FALSE
    /\ od_targets = <<>>
    /\ od_listeners = <<>>
    /\ od_available = [t \in OutputTargets |-> TRUE]
    /\ od_log = Nothing

\* a dispatcher call that has returned: its arguments, what it returned,
\* what the dispatcher held when it was made, the calls it made to targets
\* and listeners with the metadata it passed them, and the caller's metadata
\* argument as the call left it
DispatcherOp(op, target, text, metadata, ret) ==
    [op |-> op, target |-> target, text |-> text, metadata |-> metadata,
     ret |-> ret, raised |-> FALSE,
     pre_initialized |-> od_initialized, pre_targets |-> od_targets,
     pre_listeners |-> od_listeners, pre_available |-> od_available,
     deliveries |-> <<>>, notifications |-> <<>>, sent |-> EmptyDict,
     arg_after |-> metadata, at |-> now]

\* how often x occurs in a list
Count(seq, x) == Cardinality({i \in 1..Len(seq) : seq[i] = x})

\* list.remove(x): the first occurrence goes
ListRemove(seq, x) ==
    LET i == CHOOSE k \in 1..Len(seq) :
                 seq[k] = x /\ \A j \in 1..(k - 1) : seq[j] # x
    IN SubSeq(seq, 1, i - 1) \o SubSeq(seq, i + 1, Len(seq))

\* initialize
InitializeDispatcher ==
    /\ od_initialized' = TRUE
    /\ od_log' = Some(DispatcherOp("initialize", "", Nothing, Nothing, TRUE))
    /\ UNCHANGED <<od_targets, od_listeners, od_available>>
    /\ UNCHANGED <<smVars, apVars, plVars, saVars, aiVars,
                   rsVars, hkVars>>

\* add_target: if not target.is_available(): return False; append
AddTarget(t) ==
    /\ Len(od_targets) < MaxTargets
    /\ od_targets' = IF od_available[t] THEN Append(od_targets, t)
                     ELSE od_targets
    /\ od_log' = Some(DispatcherOp("add_target", t, Nothing, Nothing,
                                   od_available[t]))
    /\ UNCHANGED <<od_initialized, od_listeners, od_available>>
    /\ UNCHANGED <<smVars, apVars, plVars, saVars, aiVars,
                   rsVars, hkVars>>

\* remove_target: self._targets.remove(target), False on ValueError
RemoveTarget(t) ==
    /\ od_targets' = IF Count(od_targets, t) > 0
                     THEN ListRemove(od_targets, t) ELSE od_targets
    /\ od_log' = Some(DispatcherOp("remove_target", t, Nothing, Nothing,
                                   Count(od_targets, t) > 0))
    /\ UNCHANGED <<od_initialized, od_listeners, od_available>>
    /\ UNCHANGED <<smVars, apVars, plVars, saVars, aiVars,
                   rsVars, hkVars>>

\* add_event_listener
AddEventListener(l) ==
    /\ Len(od_listeners) < MaxOutputListeners
    /\ od_listeners' = Append(od_listeners, l)
    /\ od_log' = Some(DispatcherOp("add_event_listener", l, Nothing, Nothing,
                                   TRUE))
    /\ UNCHANGED <<od_initialized, od_targets, od_available>>
    /\ UNCHANGED <<smVars, apVars, plVars, saVars, aiVars,
                   rsVars, hkVars>>

\* remove_event_listener
RemoveEventListener(l) ==
    /\ od_listeners' = IF Count(od_listeners, l) > 0
                       THEN ListRemove(od_listeners, l) ELSE od_listeners
    /\ od_log' = Some(DispatcherOp("remove_event_listener", l, Nothing,
                                   Nothing, Count(od_listeners, l) > 0))
    /\ UNCHANGED <<od_initialized, od_targets, od_available>>
    /\ UNCHANGED <<smVars, apVars, plVars, saVars, aiVars,
                   rsVars, hkVars>>

\* cleanup: every target's cleanup(), clear_targets(), clear_listeners()
CleanupDispatcher ==
    /\ od_targets' = <<>>
    /\ od_listeners' = <<>>
    /\ od_initialized' = FALSE
    /\ od_log' = Some(DispatcherOp("cleanup", "", Nothing, Nothing, TRUE))
    /\ UNCHANGED od_available
    /\ UNCHANGED <<smVars, apVars, plVars, saVars, aiVars,
                   rsVars, hkVars>>

\* a target becomes available or unavailable
TargetAvailabilityChange(t) ==
    /\ od_available' = [od_available EXCEPT ![t] = ~@]
    /\ od_log' = Nothing
    /\ UNCHANGED <<od_initialized, od_targets, od_listeners>>
    /\ UNCHANGED <<smVars, apVars, plVars, saVars, aiVars,
                   rsVars, hkVars>>

(* ---- dispatch_text ---- *)

\* faulty variant: only None is rejected
TextFalsyNoneOnly(text) == text = Nothing

\* not text
TextFalsy(text) == IF text = Nothing THEN TRUE ELSE text[1] = ""

\* if metadata is None: metadata = {}
\* if 'timestamp' not in metadata: metadata['timestamp'] = time.time()
StampTimestamp(metadata, t) ==
    LET d == IF metadata = Nothing THEN EmptyDict ELSE metadata[1]
    IN IF "timestamp" \in Keys(d) THEN d ELSE d \cup {<<"timestamp", t>>}

\* one turn of "for target in self._targets": is_available() and
\* deliver_text(text, metadata), inside try/except
TargetOutcome(t) ==
    IF ~od_available[t] THEN "skipped"
    ELSE CASE TargetKind[t] = "accepts" -> "accepted"
           [] TargetKind[t] = "refuses" -> "refused"
           [] TargetKind[t] = "raises" -> "raised"

\* faulty variant: the first target that raises ends the loop
AfterTargetRaisedAbort(rest) == <<>>

\* except Exception: print(...) - the loop goes on with the targets left
AfterTargetRaised(rest) == rest

RECURSIVE DeliverAll(_)
\* the loop over self._targets: one record per turn
DeliverAll(targets) ==
    IF targets = <<>>
    THEN <<>>
    ELSE LET o == TargetOutcome(Head(targets))
             rest == IF o = "raised"
                     THEN AfterTargetRaised(Tail(targets))
                     ELSE Tail(targets)
         IN <<[target |-> Head(targets), outcome |-> o]>> \o DeliverAll(rest)

\* the loop over self._event_listeners: listener(text, metadata), inside
\* try/except
NotifyAll(ls) ==
    [i \in 1..Len(ls) |->
        [listener |-> ls[i],
         outcome |-> IF OutputListenerKind[ls[i]] = "raises"
                     THEN "raised" ELSE "returned"]]

\* success_count
SuccessCount(deliveries) ==
    Cardinality({i \in 1..Len(deliveries) :
                    deliveries[i].outcome = "accepted"})

\* dispatch_text(text, metadata)
DispatchText(text, metadata) ==
    /\ IF ~od_initialized \/ TextFalsy(text)
       THEN od_log' = Some(DispatcherOp("dispatch_text", "", text, metadata,
                                        FALSE))
       ELSE LET sent == StampTimestamp(metadata, now)
                deliveries == DeliverAll(od_targets)
                notifications == NotifyAll(od_listeners)
            IN od_log' = Some(
                 [DispatcherOp("dispatch_text", "", text, metadata,
                               SuccessCount(deliveries) > 0)
                  EXCEPT !.deliveries = deliveries,
                         !.notifications = notifications,
                         !.raised = Len(deliveries) < Len(od_targets),
                         !.sent = sent,
                         !.arg_after = IF metadata = Nothing
                                       THEN Nothing ELSE Some(sent)])
    /\ UNCHANGED <<od_initialized, od_targets, od_listeners, od_available>>
    /\ UNCHANGED <<smVars, apVars, plVars, saVars, aiVars,
                   rsVars, hkVars>>

(* ------------------------------------------------------------------ *)
(* SoundDeviceAudioInput: the device callback and the processing thread *)
(* ------------------------------------------------------------------ *)

\* no audio_callback call is in progress
CallbackIdle == [pc |-> "idle", chunk |-> 0, dropped |-> 0]

\* SoundDeviceAudioInput.__init__
InitAudioInput ==
    /\ ai_stream = FALSE
    /\ ai_queue = <<>>
    /\ ai_cb = CallbackIdle
    /\ ai_next = 1
    /\ ai_out = <<>>
    /\ ai_log = Nothing

\* an audio_callback call that has returned: the chunk it was given,
\* whether put_nowait found the queue full, whether the chunk is in the
\* queue, and the chunk taken out to make room (0 for none)
CallbackReturned(chunk, full, admitted, dropped) ==
    Some([chunk |-> chunk, full |-> full, admitted |-> admitted,
          dropped |-> dropped])

\* start_capture: a new queue, the processing thread, the stream
StartCapture ==
    /\ ~ai_stream
    /\ ai_stream' = TRUE
    /\ ai_queue' = <<>>
    /\ ai_log' = Nothing
    /\ UNCHANGED <<ai_cb, ai_next, ai_out>>
    /\ UNCHANGED <<smVars, apVars, plVars, saVars, odVars,
                   rsVars, hkVars>>

\* stop_capture: the stream is stopped and closed (a callback in progress
\* ends first), the processing thread is stopped, the queue is let go
StopCapture ==
    /\ ai_stream
    /\ ai_cb.pc = "idle"
    /\ ai_stream' = FALSE
    /\ ai_queue' = <<>>
    /\ ai_log' = Nothing
    /\ UNCHANGED <<ai_cb, ai_next, ai_out>>
    /\ UNCHANGED <<smVars, apVars, plVars, saVars, odVars,
                   rsVars, hkVars>>

\* the device calls audio_callback(indata, ...): audio_bytes = indata.tobytes()
CallbackBegin ==
    /\ ai_stream
    /\ ai_cb.pc = "idle"
    /\ ai_next <= MaxDeviceChunks
    /\ ai_cb' = [CallbackIdle EXCEPT !.pc = "put", !.chunk = ai_next]
    /\ ai_next' = ai_next + 1
    /\ ai_log' = Nothing
    /\ UNCHANGED <<ai_stream, ai_queue, ai_out>>
    /\ UNCHANGED <<smVars, apVars, plVars, saVars, odVars,
                   rsVars, hkVars>>

\* self._audio_queue.put_nowait(audio_bytes), or queue.Full is raised
CallbackPut ==
    /\ ai_cb.pc = "put"
    /\ IF Len(ai_queue) < MaxQueueSize
       THEN /\ ai_queue' = Append(ai_queue, ai_cb.chunk)
            /\ ai_cb' = CallbackIdle
            /\ ai_log' = CallbackReturned(ai_cb.chunk, FALSE, TRUE, 0)
       ELSE /\ ai_cb' = [ai_cb EXCEPT !.pc = "drop_oldest"]
            /\ UNCHANGED <<ai_queue, ai_log>>
    /\ UNCHANGED <<ai_stream, ai_next, ai_out>>
    /\ UNCHANGED <<smVars, apVars, plVars, saVars, odVars,
                   rsVars, hkVars>>

\* except queue.Full: self._audio_queue.get_nowait(), or queue.Empty is
\* raised and passed over, which ends the call
CallbackDropOldest ==
    /\ ai_cb.pc = "drop_oldest"
    /\ IF ai_queue # <<>>
       THEN /\ ai_queue' = Tail(ai_queue)
            /\ ai_cb' = [ai_cb EXCEPT !.pc = "put_newest",
                                       !.dropped = Head(ai_queue)]
            /\ UNCHANGED ai_log
       ELSE /\ ai_cb' = CallbackIdle
            /\ ai_log' = CallbackReturned(ai_cb.chunk, TRUE, FALSE, 0)
            /\ UNCHANGED ai_queue
    /\ UNCHANGED <<ai_stream, ai_next, ai_out>>
    /\ UNCHANGED <<smVars, apVars, plVars, saVars, odVars,
                   rsVars, hkVars>>

\* self._audio_queue.put_nowait(audio_bytes) after the oldest was removed
\* (the processing thread only takes, so there is room)
CallbackPutNewest ==
    /\ ai_cb.pc = "put_newest"
    /\ Len(ai_queue) < MaxQueueSize
    /\ ai_queue' = Append(ai_queue, ai_cb.chunk)
    /\ ai_cb' = CallbackIdle
    /\ ai_log' = CallbackReturned(ai_cb.chunk, TRUE, TRUE, ai_cb.dropped)
    /\ UNCHANGED <<ai_stream, ai_next, ai_out>>
    /\ UNCHANGED <<smVars, apVars, plVars, saVars, odVars,
                   rsVars, hkVars>>

\* one turn of _audio_processing_loop that gets a chunk:
\* audio_bytes = self._audio_queue.get(timeout=0.1); self._callback(audio_bytes)
\* (a turn whose get times out changes nothing)
ProcessingGet ==
    /\ ai_stream
    /\ ai_queue # <<>>
    /\ ai_queue' = Tail(ai_queue)
    /\ ai_out' = Append(ai_out, Head(ai_queue))
    /\ UNCHANGED <<ai_stream, ai_cb, ai_next, ai_log>>
    /\ UNCHANGED <<smVars, apVars, plVars, saVars, odVars,
                   rsVars, hkVars>>

(* ------------------------------------------------------------------ *)
(* Specifications                                                      *)
(* ------------------------------------------------------------------ *)

\* BasicStateManager used from one thread; listeners may return, raise or
\* call set_state themselves
Init ==
    /\ InitSM
    /\ InitAppIdle
    /\ InitDispatcher
    /\ InitAudioInput
    /\ InitRecognition
    /\ InitHotkeys
    /\ InitPipeline
    /\ audio_available = TRUE
    /\ rec_available = TRUE
    /\ wiring = "state_manager"

Next ==
    \/ \E l \in Listeners : RegisterListener(l)
    \/ \E l \in Listeners : UnregisterListener(l)
    \/ \E s \in VoiceTypingState, m \in MetadataArgs :
           SetStateCall(HotkeyThread, s, m, MaxHistory)
    \/ CheckTransition(HotkeyThread)
    \/ ReadOldState(HotkeyThread)
    \/ WriteState(HotkeyThread)
    \/ UpdateMetadata(HotkeyThread)
    \/ AppendHistory(HotkeyThread)
    \/ \E l \in Listeners : NotifyListener(HotkeyThread, l)
    \/ \E l \in Listeners, s \in VoiceTypingState, m \in MetadataArgs :
           NotifyListenerReenter(HotkeyThread, l, s, m)
    \/ ReturnTrue(HotkeyThread)

Spec == Init /\ [][Next]_vars

\* the states each thread asks for: the hotkey thread as on_release does, the
\* audio thread as the inactivity timeout does
Requests(t) ==
    IF t = HotkeyThread THEN {LISTENING, FINISH_LISTENING} ELSE {IDLE}

RequestMetadata(t) ==
    IF t = HotkeyThread
    THEN Some({<<"source", "hotkey_manager">>})
    ELSE Some({<<"source", "inactivity_timeout">>})

\* BasicStateManager shared by the hotkey thread and the audio thread;
\* listeners only observe
NextThreads ==
    \/ \E l \in Observers : RegisterListener(l)
    \/ \E l \in Observers : UnregisterListener(l)
    \/ \E t \in Threads : \E s \in Requests(t) :
           SetStateCall(t, s, RequestMetadata(t), MaxSharedHistory)
    \/ \E t \in Threads : CheckTransition(t)
    \/ \E t \in Threads : ReadOldState(t)
    \/ \E t \in Threads : WriteState(t)
    \/ \E t \in Threads : UpdateMetadata(t)
    \/ \E t \in Threads : AppendHistory(t)
    \/ \E t \in Threads, l \in Observers : NotifyListener(t, l)
    \/ \E t \in Threads : ReturnTrue(t)

SpecThreads == Init /\ [][NextThreads]_vars

(* ------------------------------------------------------------------ *)
(* Properties of BasicStateManager.set_state                           *)
(* ------------------------------------------------------------------ *)

Completed(t) == result[t] # Nothing

Done(t) == result[t][1]

\* the transition record a call is to produce
Expected(r) ==
    [from_state |-> r.pre.state, to_state |-> r.new_state,
     metadata |-> IF r.metadata = Nothing THEN EmptyDict ELSE r.metadata[1]]

InTable(r) == r.new_state \in valid_transitions[r.pre.state]

\* the invocations listener l received with the transition at place i
InvocationsAt(l, i) == {k \in 1..Len(calls[l]) : calls[l][k].index = i}

C3_HistoryIsSerial ==
    \A i \in 1..Len(history) :
        /\ history[i].to_state \in valid_transitions[history[i].from_state]
        /\ i > 1 => history[i].from_state = history[i - 1].to_state

\* C4: a listener invoked with a transition reads that transition's to_state
\* as the current state, and receives transitions in the order of the
\* history, also when a listener calls set_state during notification.
C4_ListenerSeesTransitionState ==
    \A l \in Listeners :
        \A k \in 1..Len(calls[l]) :
            /\ calls[l][k].seen = calls[l][k].transition.to_state
            /\ k > 1 => calls[l][k - 1].index < calls[l][k].index

\* C5: with a raising listener registered, an accepted set_state call still
\* returns true, keeps the state change and the history record, and every
\* other registered listener is invoked with the transition.
C5_RaisingListenerIsolated ==
    \A t \in Threads :
        (/\ Completed(t)
         /\ InTable(Done(t))
         /\ "raiser" \in Done(t).pre.listeners) =>
            LET r == Done(t)
                i == Len(r.pre.history) + 1
            IN /\ r.ret = TRUE
               /\ Len(history) >= i /\ history[i] = Expected(r)
               /\ ~r.nested => current_state = r.new_state
               /\ \A l \in r.pre.listeners : InvocationsAt(l, i) # {}

\* an accepted call notified the raising listener and the two others
C5_Witness ==
    /\ Completed(HotkeyThread)
    /\ Done(HotkeyThread).ret = TRUE
    /\ Done(HotkeyThread).pre.listeners = Listeners
    /\ \A l \in Listeners : calls[l] # <<>>

\* the legacy application: the hotkey thread and the audio loop, wired with
\* the LegacyStateManagerAdapter (main.py) or without a state manager
\* (voice_typing.py)
InitApp ==
    /\ InitSM
    /\ InitAppIdle
    /\ InitDispatcher
    /\ InitAudioInput
    /\ InitRecognition
    /\ InitHotkeys
    /\ InitPipeline
    /\ audio_available = TRUE
    /\ rec_available = TRUE
    /\ wiring \in {"state_manager", "direct"}

NextApp ==
    \/ \E r \in HotkeyRequests : HotkeySetState(r)
    \/ HotkeyFinish
    \/ \E a \in BOOLEAN, r \in RecognitionResults : ProcessBuffer(a, r)
    \/ Tick

SpecApp == InitApp /\ [][NextApp]_vars

(* ------------------------------------------------------------------ *)
(* Properties of the inactivity policy                                 *)
(* ------------------------------------------------------------------ *)

Processed == op_log # Nothing /\ op_log[1].op = "process_buffer"

HotkeyReturned == op_log # Nothing /\ op_log[1].op = "set_state"

\* reference_time as the design defines it, from the timers a call found:
\* last_text_at if set, else listening_started_at
reference_time(r) ==
    IF r.pre_last_text_at # NoTime
    THEN r.pre_last_text_at
    ELSE r.pre_listening_started_at

\* the time without activity a process_buffer call found
Inactive(r) == r.at - reference_time(r)

\* C6: a process_buffer call that finds the state LISTENING and more than
\* five seconds gone since the reference time leaves the state IDLE, also
\* when the recognition source returns no result (stated for the calls that
\* recognise no text from an available source).
C6_InactivityDisablesUnconditionally ==
    (/\ Processed
     /\ op_log[1].pre_state = LISTENING
     /\ reference_time(op_log[1]) # NoTime
     /\ Inactive(op_log[1]) > InactivityTimeout
     /\ op_log[1].available
     /\ op_log[1].result # SomeText) =>
        op_log[1].post_state = IDLE

\* C7: a process_buffer call that finds the state LISTENING and at most five
\* seconds gone since the reference time leaves the state LISTENING.
C7_NoPrematureDisable ==
    (/\ Processed
     /\ op_log[1].pre_state = LISTENING
     /\ reference_time(op_log[1]) # NoTime
     /\ Inactive(op_log[1]) <= InactivityTimeout) =>
        /\ op_log[1].post_state = LISTENING
        /\ gs_state = LISTENING

\* listening began 7 s ago, text came 2 s ago, the timeout check ran and the
\* state is still LISTENING
C7_Witness ==
    /\ Processed
    /\ op_log[1].pre_state = LISTENING
    /\ op_log[1].pre_listening_started_at = op_log[1].at - 7
    /\ op_log[1].pre_last_text_at = op_log[1].at - 2
    /\ op_log[1].available
    /\ op_log[1].result = EmptyText
    /\ gs_state = LISTENING

\* C8: a process_buffer call that finds the state FINISH_LISTENING leaves it
\* IDLE if and only if last_text_at is set and more than five seconds old;
\* otherwise it leaves FINISH_LISTENING (stated for the calls that recognise
\* no text from an available source).
C8_FinishListeningTimeout ==
    (/\ Processed
     /\ op_log[1].pre_state = FINISH_LISTENING
     /\ op_log[1].available
     /\ op_log[1].result # SomeText) =>
        IF /\ op_log[1].pre_last_text_at # NoTime
           /\ op_log[1].at - op_log[1].pre_last_text_at > InactivityTimeout
        THEN op_log[1].post_state = IDLE
        ELSE op_log[1].post_state = FINISH_LISTENING

TimeoutSource(state) ==
    IF state = LISTENING THEN "inactivity_timeout" ELSE "finish_listening_timeout"

\* C9: in the application wired with a state manager, after a process_buffer
\* call changed LISTENING or FINISH_LISTENING to IDLE the manager's history
\* ends with that transition, with metadata source "inactivity_timeout" or
\* "finish_listening_timeout", and every registered listener has received it.
C9_TimeoutGoesThroughStateManager ==
    (/\ Processed
     /\ wiring = "state_manager"
     /\ op_log[1].pre_state \in {LISTENING, FINISH_LISTENING}
     /\ op_log[1].post_state = IDLE) =>
        LET r == op_log[1]
            tr == [from_state |-> r.pre_state, to_state |-> IDLE,
                   metadata |-> {<<"source", TimeoutSource(r.pre_state)>>}]
        IN /\ r.post_history # <<>>
           /\ r.post_history[Len(r.post_history)] = tr
           /\ \A l \in AdapterListeners :
                 /\ r.post_calls[l] # <<>>
                 /\ r.post_calls[l][Len(r.post_calls[l])] = tr

\* C10: HotkeyManager.set_state calls start_listening exactly once when it
\* made an accepted change to LISTENING and not at all otherwise; after an
\* accepted change to LISTENING listening_started_at is the time of the call
\* and last_text_at is unset, so that the reference time is the new start.
C10_StartListeningOncePerEntry ==
    HotkeyReturned =>
        LET r == op_log[1]
            entered == r.accepted /\ r.new_state = LISTENING
        IN /\ r.start_listening_calls = (IF entered THEN 1 ELSE 0)
           /\ entered =>
                 /\ r.post_listening_started_at = r.at
                 /\ r.post_last_text_at = NoTime
                 /\ listening_started_at = r.at
                 /\ last_text_at = NoTime
                 /\ ActivityReference(last_text_at, listening_started_at) = r.at
           /\ ~entered =>
                 /\ r.post_last_text_at = r.pre_last_text_at
                 /\ last_text_at = r.pre_last_text_at

\* a second listening session entered while last_text_at of the first one
\* was still set
C10_Witness ==
    /\ HotkeyReturned
    /\ op_log[1].accepted
    /\ op_log[1].new_state = LISTENING
    /\ op_log[1].pre_last_text_at # NoTime
    /\ op_log[1].start_listening_calls = 1
    /\ last_text_at = NoTime

(* ------------------------------------------------------------------ *)
(* Specifications of the audio pipeline                                *)
(* ------------------------------------------------------------------ *)

InitPipelineEnv ==
    /\ InitSM
    /\ InitAppIdle
    /\ InitDispatcher
    /\ InitAudioInput
    /\ InitRecognition
    /\ InitHotkeys
    /\ wiring = "state_manager"
    /\ InitPipeline
    /\ audio_available \in BOOLEAN
    /\ rec_available \in BOOLEAN

\* the event loop's tasks and the audio source's thread
NextWorkers ==
    \/ DeliverChunk
    \/ RunScheduledPut
    \/ ResumePutter
    \/ \E s \in WorkerStages, w \in WorkerIds : WorkerBegin(s, w)
    \/ \E w \in WorkerIds : BufferingGet(w)
    \/ \E w \in WorkerIds : BufferingTimeout(w)
    \/ \E w \in WorkerIds : BufferingPut(w)
    \/ \E w \in WorkerIds : RecognitionGet(w)
    \/ \E w \in WorkerIds : RecognitionTimeout(w)

\* the coordinator used by one caller
NextPipeline ==
    \/ NextWorkers
    \/ StartPipeline
    \/ \E s \in Stages : StartStage(s)
    \/ CheckStarted
    \/ StopPipeline
    \/ \E s \in Stages : StopStage(s)
    \/ \E s \in WorkerStages : Join(s)
    \/ Cleanup
    \/ CleanupCapture
    \/ ClearBuffer
    \/ ReleaseRecognition
    \/ DrainQueues
    \/ Return
    \/ AudioDeviceChange
    \/ RecognitionSourceChange

SpecPipeline == InitPipelineEnv /\ [][NextPipeline]_vars

\* the stages used directly by one caller
NextStages ==
    \/ NextWorkers
    \/ \E s \in Stages : CallStageStart(s)
    \/ \E s \in Stages : CallStageStop(s)
    \/ \E s \in Stages : StopStage(s)
    \/ \E s \in WorkerStages : Join(s)
    \/ Return

SpecStages == InitPipelineEnv /\ [][NextStages]_vars

\* the pipeline system of main_pipeline.py --pipeline: the hotkey thread, the
\* supervising loop, the event loop's tasks and the audio source's thread
InitPipelineSystem ==
    /\ InitSM
    /\ InitAppIdle
    /\ InitDispatcher
    /\ InitAudioInput
    /\ InitRecognition
    /\ InitHotkeys
    /\ wiring = "pipeline"
    /\ InitPipeline
    /\ audio_available \in BOOLEAN
    /\ rec_available \in BOOLEAN

NextCaller ==
    \/ SupervisorTurn
    \/ \E s \in Stages : StartStage(s)
    \/ CheckStarted
    \/ Return

NextUser ==
    \/ \E r \in HotkeyRequests : UserHotkey(r)
    \/ HotkeyFinish
    \/ UserLeaves

NextPipelineSystem == NextWorkers \/ NextCaller \/ NextUser

\* the event loop runs every task that is ready whenever the supervising
\* loop sleeps between two turns (await asyncio.sleep(0.1)), the audio
\* thread delivers while it captures, and the hotkey thread finishes the
\* call it is in
SpecPipelineSystem ==
    /\ InitPipelineSystem
    /\ [][NextPipelineSystem]_vars
    /\ SF_vars(NextWorkers)
    /\ WF_vars(NextCaller)
    /\ WF_vars(HotkeyFinish)

(* ------------------------------------------------------------------ *)
(* Properties of the audio pipeline                                    *)
(* ------------------------------------------------------------------ *)

\* C11: whenever the state is LISTENING and from then on no text is
\* recognized and no hotkey event occurs, the state eventually becomes IDLE
\* (here for the pipeline system, where recognized text changes no state)
C11_AutoDisable == (gs_state = LISTENING /\ quiet) ~> (gs_state = IDLE)

\* the call that returned last, if it is this one
Finished(call, stage) ==
    /\ co_todo = <<>>
    /\ co_ret # Nothing
    /\ co_ret[1].call = call
    /\ co_ret[1].stage = stage

\* a stage that produces into a queue is at work
Producing(s) ==
    IF s = CAPTURE
    THEN stage_running[CAPTURE] \/ capturing
    ELSE stage_running[s] \/ AliveWorkers(s) # {}

\* C12: when start_pipeline() has returned false because a stage failed to
\* start, none of the three stages is running
C12_NoPartialStart ==
    (Finished("start_pipeline", "all") /\ ~co_ret[1].value)
        => /\ \A s \in Stages : ~stage_running[s]
           /\ ~capturing
           /\ \A s \in WorkerStages : AliveWorkers(s) = {}

\* C13: stages start downstream first and stop upstream first, so at no time
\* is a producing stage running while the stage that consumes its output
\* queue has not yet been started or has already been stopped
C13_ConsumerRunsWhileProducerRuns ==
    /\ Producing(CAPTURE) => stage_running[BUFFERING]
    /\ Producing(BUFFERING) => stage_running[RECOGNITION]

\* C14: start() on a running stage returns true and spawns no second worker;
\* whatever start() and stop() calls one caller makes, a stage has at most one
\* loop task alive, and a start() that succeeds on a stopped stage leaves it
\* running with exactly one
C14_StartIdempotent ==
    /\ \A s \in WorkerStages : Cardinality(AliveWorkers(s)) <= 1
    /\ \A s \in Stages :
          Finished("start", s) =>
             /\ co_ret[1].found_running => co_ret[1].value
             /\ co_ret[1].value => stage_running[s]
             /\ (co_ret[1].value /\ ~co_ret[1].found_running
                    /\ s \in WorkerStages)
                   => Cardinality(AliveWorkers(s)) = 1
             /\ (co_ret[1].value /\ s = CAPTURE) => capturing

\* a buffering stage that was started, stopped and started again is started
\* once more while it runs: its second task is the only one alive
C14_Witness ==
    /\ Finished("start", BUFFERING)
    /\ co_ret[1].found_running
    /\ worker[BUFFERING][1] = "done"
    /\ Alive(BUFFERING, 2)

\* C15: when stop() of the buffering or the recognition stage has returned,
\* the stage's loop task has ended, so it touches neither queue nor the
\* recognition source any more
C15_StopJoinsWorker ==
    \A s \in WorkerStages : Finished("stop", s) => AliveWorkers(s) = {}

\* stop() has returned from a buffering stage whose loop had taken chunks
C15_Witness ==
    /\ Finished("stop", BUFFERING)
    /\ worker[BUFFERING][1] = "done"
    /\ dequeued # <<>>

\* C16: after AudioCaptureStage.stop() has returned, no further chunk is
\* added to the stage's output queue
C16_NoChunkAfterStop ==
    [][(~stage_running[CAPTURE] /\ ~stage_running'[CAPTURE])
          => Len(q1') <= Len(q1)]_vars

\* the n most recent of the chunks 1..last
MostRecent(n, last) == [i \in 1..n |-> last - n + i]

Min(a, b) == IF a < b THEN a ELSE b

\* C17: the capture queue drops its oldest chunk to admit the newest: the
\* chunks held by the queue and by pending enqueue operations never exceed
\* the capacity, and with the consumer paused the queue ends up holding the
\* most recent chunks in order
C17_CaptureDropsOldest ==
    /\ Len(q1) + Len(scheduled) + Len(putters) + Len(woken) <= QueueSize
    /\ (dequeued = <<>> /\ scheduled = <<>>)
          => q1 = MostRecent(Min(next_chunk - 1, QueueSize), next_chunk - 1)

\* C18: the chunks passed to process_audio_chunk are a subsequence of the
\* chunks delivered to the capture callback, in the same order (chunks are
\* numbered in the order of delivery)
C18_EndToEndFifo ==
    \A i, j \in 1..Len(processed) : i < j => processed[i] < processed[j]

RECURSIVE Flatten(_)
\* the chunks of a sequence of emitted buffers, in order
Flatten(bufs) ==
    IF bufs = <<>> THEN <<>> ELSE Head(bufs).chunks \o Flatten(Tail(bufs))

C20_CleanupLeavesNothing ==
    Finished("cleanup", "all") =>
        /\ ~co_running
        /\ \A s \in Stages : ~stage_running[s]
        /\ ~capturing
        /\ \A s \in WorkerStages : AliveWorkers(s) = {}
        /\ cleaned = Stages
        /\ buffer = <<>>
        /\ q1 = <<>>
        /\ q2 = <<>>

(* ------------------------------------------------------------------ *)
(* Specification and properties of the OutputDispatcher                *)
(* ------------------------------------------------------------------ *)

\* one caller uses the dispatcher; targets come and go
NextDispatcher ==
    \/ InitializeDispatcher
    \/ \E t \in OutputTargets : AddTarget(t)
    \/ \E t \in OutputTargets : RemoveTarget(t)
    \/ \E l \in OutputListeners : AddEventListener(l)
    \/ \E l \in OutputListeners : RemoveEventListener(l)
    \/ CleanupDispatcher
    \/ \E t \in OutputTargets : TargetAvailabilityChange(t)
    \/ \E text \in Texts, m \in DispatchMetadataArgs : DispatchText(text, m)

SpecDispatcher == Init /\ [][NextDispatcher]_vars

Dispatched == od_log # Nothing /\ od_log[1].op = "dispatch_text"

\* a dispatch_text call that got past both of its checks
DispatchedText ==
    /\ Dispatched
    /\ od_log[1].pre_initialized
    /\ od_log[1].text \notin {Nothing, Some("")}

\* the turns of the target loop that called deliver_text of target t
DeliveriesTo(r, t) ==
    {i \in 1..Len(r.deliveries) :
        r.deliveries[i].target = t /\ r.deliveries[i].outcome # "skipped"}

\* the turns of the listener loop that called listener l
NotificationsOf(r, l) ==
    {i \in 1..Len(r.notifications) : r.notifications[i].listener = l}

\* C21: dispatch_text with empty or absent text returns false, calls no
\* target's deliver_text, notifies no listener and leaves the caller's
\* metadata argument and the registrations as they were
C21_EmptyTextRejected ==
    (Dispatched /\ od_log[1].text \in {Nothing, Some("")}) =>
        /\ od_log[1].ret = FALSE
        /\ ~od_log[1].raised
        /\ od_log[1].deliveries = <<>>
        /\ od_log[1].notifications = <<>>
        /\ od_log[1].arg_after = od_log[1].metadata
        /\ od_targets = od_log[1].pre_targets
        /\ od_listeners = od_log[1].pre_listeners

\* an initialized dispatcher with an available accepting target and a
\* listener was given "" with a dict that has no timestamp
C21_Witness ==
    /\ Dispatched
    /\ od_log[1].text = Some("")
    /\ od_log[1].metadata = Some(EmptyDict)
    /\ od_log[1].pre_initialized
    /\ Count(od_log[1].pre_targets, "keyboard") = 1
    /\ od_log[1].pre_available["keyboard"]
    /\ od_log[1].pre_listeners # <<>>
    /\ od_log[1].ret = FALSE

\* C22: one dispatch_text call with non-empty text on an initialized
\* dispatcher calls deliver_text of every registered available target
\* exactly once and every registered listener exactly once, with metadata
\* that holds the caller's timestamp if it gave one and the dispatcher's
\* otherwise, and returns true if and only if a target accepted the text
C22_FanOut ==
    DispatchedText =>
        LET r == od_log[1]
            given == IF r.metadata = Nothing THEN EmptyDict ELSE r.metadata[1]
        IN /\ \A t \in OutputTargets :
                 Cardinality(DeliveriesTo(r, t)) =
                    (IF Count(r.pre_targets, t) > 0 /\ r.pre_available[t]
                     THEN 1 ELSE 0)
           /\ \A l \in OutputListeners :
                 Cardinality(NotificationsOf(r, l)) =
                    (IF Count(r.pre_listeners, l) > 0 THEN 1 ELSE 0)
           /\ "timestamp" \in Keys(r.sent)
           /\ \A p \in given : p \in r.sent
           /\ "timestamp" \notin Keys(given) => <<"timestamp", r.at>> \in r.sent
           /\ r.ret = (\E i \in 1..Len(r.deliveries) :
                          r.deliveries[i].outcome = "accepted")

\* C23: a target that raises or returns false and a listener that raises
\* stop neither the later turns of the target loop nor the listener loop,
\* and dispatch_text does not raise: every registration of an available
\* target gets its deliver_text call and every registration of a listener
\* its notification
C23_FailureIsolation ==
    DispatchedText =>
        LET r == od_log[1]
        IN /\ ~r.raised
           /\ Len(r.deliveries) = Len(r.pre_targets)
           /\ \A i \in 1..Len(r.deliveries) :
                 /\ r.deliveries[i].target = r.pre_targets[i]
                 /\ (r.deliveries[i].outcome = "skipped")
                       = ~r.pre_available[r.pre_targets[i]]
           /\ Len(r.notifications) = Len(r.pre_listeners)
           /\ \A i \in 1..Len(r.notifications) :
                 r.notifications[i].listener = r.pre_listeners[i]
           /\ r.ret = (\E i \in 1..Len(r.pre_targets) :
                          /\ r.pre_available[r.pre_targets[i]]
                          /\ TargetKind[r.pre_targets[i]] = "accepts")

\* the raising target and the refusing target came before the accepting
\* one, the raising listener before the other: the text was accepted and
\* the last listener notified
C23_Witness ==
    /\ DispatchedText
    /\ od_log[1].pre_targets = <<"failing", "refusing", "keyboard">>
    /\ \A t \in OutputTargets : od_log[1].pre_available[t]
    /\ od_log[1].pre_listeners = <<"failing_listener", "on_text">>
    /\ od_log[1].deliveries[3].outcome = "accepted"
    /\ od_log[1].notifications[2].outcome = "returned"
    /\ od_log[1].ret = TRUE

\* C24: the targets form a set: a target is registered at most once, a
\* successful remove_target(t) leaves t unregistered, and remove_target of a
\* target that is not registered returns false and changes nothing
C24_TargetsFormASet ==
    /\ \A t \in OutputTargets : Count(od_targets, t) <= 1
    /\ (od_log # Nothing /\ od_log[1].op = "remove_target") =>
          LET r == od_log[1]
          IN /\ r.ret = (Count(r.pre_targets, r.target) > 0)
             /\ r.ret => Count(od_targets, r.target) = 0
             /\ ~r.ret => od_targets = r.pre_targets

(* ------------------------------------------------------------------ *)
(* Specification and properties of reset_state and get_state_metadata  *)
(* ------------------------------------------------------------------ *)

\* the metadata arguments callers pass: None, two dicts that give the same
\* key different values, and a dict with another key
MergeArgs ==
    {Nothing,
     Some({<<"source", "hotkey_manager">>}),
     Some({<<"source", "inactivity_timeout">>}),
     Some({<<"reason", "test">>})}

\* BasicStateManager used from one thread, with listeners that observe
NextManager ==
    \/ \E l \in Observers : RegisterListener(l)
    \/ \E l \in Observers : UnregisterListener(l)
    \/ \E t \in Threads : \E s \in Requests(t), m \in MergeArgs :
           SetStateCall(HotkeyThread, s, m, MaxHistory)
    \/ CheckTransition(HotkeyThread)
    \/ ReadOldState(HotkeyThread)
    \/ WriteState(HotkeyThread)
    \/ UpdateMetadata(HotkeyThread)
    \/ AppendHistory(HotkeyThread)
    \/ \E l \in Observers : NotifyListener(HotkeyThread, l)
    \/ ReturnTrue(HotkeyThread)
    \/ ResetState
    \/ GetStateMetadata
    \/ MutateReturned("injected", "by_caller")

SpecManager == Init /\ [][NextManager]_vars

WasReset == sm_op # Nothing /\ sm_op[1].op = "reset_state"

GotMetadata == sm_op # Nothing /\ sm_op[1].op = "get_state_metadata"

\* C25: reset_state leaves the state IDLE, the history and the metadata
\* empty, invokes no listener and keeps the registered listeners; an
\* accepted transition, the first after a reset included, is delivered once
\* to every listener registered when it is made
C25_ResetState ==
    /\ WasReset =>
          /\ current_state = IDLE
          /\ history = <<>>
          /\ sm_metadata = EmptyDict
          /\ listeners = sm_op[1].pre.listeners
          /\ calls = sm_op[1].pre_calls
    /\ \A t \in Threads :
          (Completed(t) /\ Done(t).ret) =>
             /\ listeners = Done(t).pre.listeners
             /\ \A l \in listeners :
                   Cardinality(InvocationsAt(l, Len(Done(t).pre.history) + 1)) = 1

\* a manager in state LISTENING with metadata, a transition recorded and
\* two listeners that had been notified has just been reset
C25_Witness ==
    /\ WasReset
    /\ sm_op[1].pre.state = LISTENING
    /\ sm_op[1].pre.history # <<>>
    /\ sm_op[1].pre.metadata # EmptyDict
    /\ Cardinality(sm_op[1].pre.listeners) = 2
    /\ \A l \in sm_op[1].pre.listeners : sm_op[1].pre_calls[l] # <<>>

\* the recorded transitions whose metadata supplied key k
Suppliers(k) == {i \in 1..Len(history) : k \in Keys(history[i].metadata)}

Latest(S) == CHOOSE i \in S : \A j \in S : j <= i

\* C26: the manager's metadata holds, for each key, the value of the most
\* recent accepted transition that supplied the key and nothing else; a
\* rejected call and an accepted call without metadata leave it as it was;
\* get_state_metadata returns it, and what the caller then writes to the
\* returned mapping does not reach the manager
C26_MetadataLastWriteWins ==
    ~Busy =>
        /\ \A p \in sm_metadata :
              /\ Suppliers(p[1]) # {}
              /\ p \in history[Latest(Suppliers(p[1]))].metadata
        /\ \A i \in 1..Len(history) :
              Keys(history[i].metadata) \subseteq Keys(sm_metadata)
        /\ \A t \in Threads :
              (Completed(t)
                 /\ (~Done(t).ret \/ ~DictTruthy(Done(t).metadata))) =>
                    sm_metadata = Done(t).pre.metadata
        /\ GotMetadata =>
              /\ sm_op[1].value =
                    (IF sm_op[1].mutated
                     THEN sm_op[1].pre.metadata \cup {<<"injected", "by_caller">>}
                     ELSE sm_op[1].pre.metadata)
              /\ sm_metadata = sm_op[1].pre.metadata

\* three accepted transitions gave "reason", then "source" twice with
\* different values; the caller got the mapping and wrote to it
C26_Witness ==
    /\ ~Busy
    /\ Len(history) = 3
    /\ history[1].metadata = {<<"reason", "test">>}
    /\ history[2].metadata = {<<"source", "hotkey_manager">>}
    /\ history[3].metadata = {<<"source", "inactivity_timeout">>}
    /\ sm_metadata = {<<"reason", "test">>, <<"source", "inactivity_timeout">>}
    /\ GotMetadata
    /\ sm_op[1].mutated

(* ------------------------------------------------------------------ *)
(* Specification and properties of SoundDeviceAudioInput               *)
(* ------------------------------------------------------------------ *)

\* the device's callback thread and the processing thread, one statement
\* of the callback at a time
NextAudioInput ==
    \/ StartCapture
    \/ StopCapture
    \/ CallbackBegin
    \/ CallbackPut
    \/ CallbackDropOldest
    \/ CallbackPutNewest
    \/ ProcessingGet

SpecAudioInput == Init /\ [][NextAudioInput]_vars

\* C27: however the device callback and the processing thread interleave,
\* the queue never holds more than MaxQueueSize chunks and no callback call
\* waits; a callback call that found the queue full returns with its chunk
\* in the queue
C27_OverflowAdmitsNewest ==
    /\ Len(ai_queue) <= MaxQueueSize
    /\ ai_cb.pc \in {"idle", "put", "drop_oldest", "put_newest"}
    /\ ai_log # Nothing => ai_log[1].admitted

(* ------------------------------------------------------------------ *)
(* The inactivity check and the text of the same buffer                *)
(* ------------------------------------------------------------------ *)

\* C28: the inactivity check of a process_buffer call uses the timers as
\* the call found them: a call that finds the state LISTENING and more than
\* five seconds gone since the reference time leaves the state IDLE also
\* when its buffer yields text, and the text is still passed on and
\* last_text_at set to the time of the call
C28_TimeoutUsesEntryTimers ==
    (/\ Processed
     /\ op_log[1].pre_state = LISTENING
     /\ reference_time(op_log[1]) # NoTime
     /\ Inactive(op_log[1]) > InactivityTimeout
     /\ op_log[1].available
     /\ op_log[1].result = SomeText) =>
        /\ op_log[1].post_state = IDLE
        /\ op_log[1].typed = SomeText
        /\ last_text_at = op_log[1].at

(* ------------------------------------------------------------------ *)
(* The buffering stage's flush and the full output queue               *)
(* ------------------------------------------------------------------ *)

\* chunk c has been taken from the input queue by the buffering loop
Taken(c) == \E i \in 1..Len(dequeued) : dequeued[i] = c

\* chunk c is in a buffer on the output queue, or was in one that the
\* recognition loop has taken
OnOutput(c) ==
    \/ \E i \in 1..Len(q2) : \E k \in 1..Len(q2[i]) : q2[i][k] = c
    \/ \E i \in 1..Len(processed) : processed[i] = c

\* C29: while the buffering stage keeps running, every chunk it has taken
\* from its input queue eventually is in a buffer on the output queue
C29_TimeoutFlush ==
    \A c \in 1..MaxChunks :
        (Taken(c) /\ stage_running[BUFFERING])
            ~> (OnOutput(c) \/ ~stage_running[BUFFERING])

\* C30: the buffering loop never waits in a flush: no loop task is ever
\* suspended in the put of _flush_buffer
C30_FlushNeverBlocks ==
    \A w \in WorkerIds : worker[BUFFERING][w] # "putting"

(* ------------------------------------------------------------------ *)
(* Specification and properties of the recognition stage               *)
(* ------------------------------------------------------------------ *)

\* the recognition stage used directly by one caller that starts and stops
\* it and puts buffers on its input queue, with a recognition source and a
\* callback that may raise
NextRecognition ==
    \/ CallStageStart(RECOGNITION)
    \/ CallStageStop(RECOGNITION)
    \/ StopStage(RECOGNITION)
    \/ Join(RECOGNITION)
    \/ StopRaises(RECOGNITION)
    \/ Return
    \/ \E w \in WorkerIds : WorkerBegin(RECOGNITION, w)
    \/ \E w \in WorkerIds, src \in SourceOutcomes : RecognizeBuffer(w, src)
    \/ \E w \in WorkerIds, src \in SourceOutcomes : RecognizeIdle(w, src)
    \/ \E n \in 1..BufferSize : OfferBuffer(n)

SpecRecognition == InitPipelineEnv /\ [][NextRecognition]_vars

TurnEnded == rs_turn # Nothing

LastTurn == rs_turn[1].turn

\* the text of a result, if it has one that is not empty
TextOf(res) == IF res = SomeText THEN <<res>> ELSE <<>>

C33_RunningMeansLoopAlive ==
    /\ \A s \in WorkerStages :
          stage_running[s] => task[s] # 0 /\ Alive(s, task[s])
    /\ co_ret # Nothing => ~co_ret[1].raised

(* ------------------------------------------------------------------ *)
(* PipelineVoiceTyping and the state it follows                        *)
(* ------------------------------------------------------------------ *)

\* the supervising loop with a state that its holders set to listening and
\* back to idle, the event loop's tasks and the audio source's thread
NextSupervisor ==
    \/ SupervisorTurn
    \/ \E s \in Stages : StartStage(s)
    \/ CheckStarted
    \/ \E s \in Stages : StopStage(s)
    \/ \E s \in WorkerStages : Join(s)
    \/ Return

NextSupervised ==
    \/ NextWorkers
    \/ NextSupervisor
    \/ \E st \in {IDLE, LISTENING, FINISH_LISTENING} : AssignState(st)
    \/ UserLeaves

\* the supervising loop takes its next turn after each sleep, and the event
\* loop runs every ready task while it sleeps (await asyncio.sleep(0.1))
SpecSupervised ==
    /\ InitPipelineSystem
    /\ [][NextSupervised]_vars
    /\ SF_vars(NextWorkers)
    /\ WF_vars(NextSupervisor)

NothingRuns == (\A s \in Stages : ~stage_running[s]) /\ ~capturing

\* a loop task can still be created for every worker stage
CanSpawn == \A s \in WorkerStages : \E w \in WorkerIds : worker[s][w] = "none"

\* C34: once the state stays listening or finish_listening (and both sources
\* are available) the pipeline is eventually running with all three stages
\* (as long as the model has loop tasks left to create);
\* once the state stays idle, eventually no stage is running and the audio
\* capture is stopped, also after a start attempt that started only some
\* stages
C34_PipelineFollowsState ==
    /\ (quiet /\ gs_state \in {LISTENING, FINISH_LISTENING}
              /\ audio_available /\ rec_available /\ CanSpawn)
          ~> is_pipeline_running
    /\ (quiet /\ gs_state = IDLE) ~> NothingRuns

(* ------------------------------------------------------------------ *)
(* Termination of stop_pipeline and cleanup                            *)
(* ------------------------------------------------------------------ *)

\* the steps of a coordinator call that has begun
NextCall ==
    \/ \E s \in Stages : StartStage(s)
    \/ CheckStarted
    \/ \E s \in Stages : StopStage(s)
    \/ \E s \in WorkerStages : Join(s)
    \/ CleanupCapture
    \/ ClearBuffer
    \/ ReleaseRecognition
    \/ DrainQueues
    \/ Return

\* the coordinator used by one caller, with an event loop that runs every
\* ready task while the caller's coroutine is suspended and a caller's
\* coroutine that runs whenever it can
SpecPipelineFair ==
    /\ SpecPipeline
    /\ SF_vars(NextWorkers)
    /\ WF_vars(NextCall)

\* the coordinator call in progress is c
InCall(c) == co_todo # <<>> /\ co_todo[Len(co_todo)].call = c

\* C35: stop_pipeline() and cleanup() always terminate, also when the
\* buffer-to-recognition queue is full and the recognition stage does not
\* consume
C35_StopTerminates ==
    \A c \in {"stop_pipeline", "cleanup"} : InCall(c) ~> ~InCall(c)

(* ------------------------------------------------------------------ *)
(* Audio left over from one listening session to the next              *)
(* ------------------------------------------------------------------ *)

\* C36: when stop_pipeline() has returned and has stopped every stage, both
\* queues between the stages and the accumulator of the buffering stage are
\* empty, so that a later start_pipeline() finds no audio of the session
\* that has ended
C36_NoAudioAcrossSessions ==
    (/\ co_todo = <<>>
     /\ co_ret # Nothing
     /\ co_ret[1].call = "stop_pipeline"
     /\ NothingRuns) =>
        q1 = <<>> /\ q2 = <<>> /\ buffer = <<>>

(* ------------------------------------------------------------------ *)
(* The application of main.py with its keyboard                        *)
(* ------------------------------------------------------------------ *)

InitKeys ==
    /\ InitApp
    /\ wiring = "state_manager"

\* the hotkey thread handling key events, the audio loop and the clock
NextKeys ==
    \/ \E k \in KeyboardKeys : OnPress(k)
    \/ \E k \in KeyboardKeys : OnRelease(k)
    \/ HotkeyFinish
    \/ \E a \in BOOLEAN, r \in RecognitionResults : ProcessBuffer(a, r)
    \/ Tick
    \/ UserLeaves

\* while the state is not idle the audio loop gets a chunk (the audio
\* callback queues one per block) and calls process_buffer; time passes;
\* the hotkey thread finishes the call it is in
SpecKeys ==
    /\ InitKeys
    /\ [][NextKeys]_vars
    /\ WF_vars(\E a \in BOOLEAN, r \in RecognitionResults : ProcessBuffer(a, r))
    /\ WF_vars(Tick)
    /\ WF_vars(HotkeyFinish)

\* C37: every change of the state follows an edge of the transition table
C37_ChangesFollowTable ==
    [][gs_state' # gs_state => gs_state' \in valid_transitions[gs_state]]_vars

\* C38: the state TrayIconManager shows is the state of the application
\* whenever no set_state call is in progress
C38_TrayShowsState ==
    hk = Nothing => TrayCurrentState = gs_state

\* the clock of the model has not come so close to its last value that a
\* timeout counted from now could not expire
ClockHasRoom == now + InactivityTimeout < MaxTime

\* C39: once the state is FINISH_LISTENING and the user touches no key any
\* more, the state eventually becomes IDLE (stated for the moments at which
\* the clock has room for the timeout)
C39_ManualStopEnds ==
    (gs_state = FINISH_LISTENING /\ quiet /\ ClockHasRoom) ~> (gs_state = IDLE)

Released == key_log.event # Nothing

LastRelease == key_log.event[1]

\* C40: LISTENING is requested only by a release that leaves no key of the
\* combination held, after the whole combination was held since LISTENING
\* was last requested, while the state is not LISTENING, and not by a key
\* left over from the press that ended listening; while the state is
\* LISTENING the release of a key of the combination requests
\* FINISH_LISTENING
C40_ToggleProtocol ==
    Released =>
        /\ LastRelease.request = Some(LISTENING) =>
              /\ LastRelease.keys = {}
              /\ LastRelease.combo_held
              /\ LastRelease.state # LISTENING
              /\ LastRelease.key \notin LastRelease.stale
        /\ (LastRelease.state = LISTENING /\ LastRelease.key \in HOTKEY_COMBO) =>
              LastRelease.request = Some(FINISH_LISTENING)

C40_Witness ==
    /\ Released
    /\ LastRelease.request = Nothing
    /\ LastRelease.key \in LastRelease.stale
    /\ LastRelease.keys = {}
    /\ LastRelease.state = FINISH_LISTENING
    /\ gs_state = FINISH_LISTENING

====
